---- MODULE Spec2Model ----
(***************************************************************************)
(* Press-release collection pipeline: the SERP walker                      *)
(* (collect_results.py, collect_search_results) and the article scraper    *)
(* (article_scraper.py: ScraperMetrics, the four scrape_with_* strategies,  *)
(* scrape_single_article, scrape_articles_concurrent).                     *)
(*                                                                         *)
(* SpecWalker runs one call of collect_search_results; SpecScraper runs    *)
(* one call of scrape_articles_concurrent.  The variables of the other     *)
(* half keep their initial values.                                         *)
(***************************************************************************)
EXTENDS Integers, Sequences, FiniteSets, TLC

\* ------------------------------------------------------------------ bounds
\* longest list of search queries handed to collect_search_results
MaxQueries == 2
\* largest max_pages argument of collect_search_results
MaxPages == 2
\* the counters of the fetches of one page URL stop at MaxFetches
MaxFetches == 4
\* failed_queries keeps its first MaxFailed entries
MaxFailed == 2
\* the results of a run keep at most MaxFrames frames of pages that were not
\* accepted
MaxFrames == 2

\* longest list of URLs handed to scrape_articles_concurrent
MaxUrls == 2
\* largest max_workers argument of scrape_articles_concurrent
MaxWorkers == 2
MaxThreads == 3
MaxBudget == 12
MaxResponses == 3
MaxEntries == 2
MaxRuns == 3
MaxManagers == 2
MaxData == 2
MaxInvocations == 2
MaxDate == 2

\* -------------------------------------------------------- program constants
\* config.SERP_RETRY_ATTEMPTS (default of the environment variable)
SERP_RETRY_ATTEMPTS == 3
\* delay between two queries, in milliseconds: time.sleep(0.5)
QUERY_DELAY_MS == 500
\* article_scraper.RETRY_ATTEMPTS
RETRY_ATTEMPTS == 2
\* the content check of every strategy: len(text.strip()) < 100
MIN_TEXT_LEN == 100

None == 0

\* main.py line 114: backfill_start_date="2026-01-01", as a day number
BACKFILL_START_DATE == 1

\* a checkpoint file that cannot be unpickled
Unreadable == -1

VARIABLES
    \* ---- collect_search_results
    proxy_configured,   \* config.BRIGHT_DATA_PROXY_URL_HTTP and _HTTPS are both set
    search_queries,     \* the argument: a list of query ids
    max_pages,          \* the argument (after the default is applied)
    wpc,                \* position of the walker in collect_search_results
    qi,                 \* index in search_queries of the query of the for loop
    current_url,        \* None, or the page number the URL addresses
    page_count,
    query_results,      \* list of the data frames of the current query
    full_results,       \* list of the data frames of all queries so far
    failed_queries,     \* list of queries
    attempt,            \* loop variable of the retry loop
    success,
    \* ---- history of the walker (not program state)
    log_url,            \* <<qi, page>> of the URL fetched last, or <<>>
    last_tag,           \* outcome of the last fetch (its LogTag), or "none"
    fetches,            \* number of requests.get calls for log_url (saturates)
    transient_errs,     \* how many of them met a timeout or a connection error
    unexpected_errs,    \* number of them that raised an unclassified exception
    slept,              \* milliseconds slept since the last requests.get
    \* ---- scrape_articles_concurrent
    urls,               \* the argument: a list of URL ids
    max_workers,        \* the argument
    spc,                \* position of the coordinator
    submitted,          \* number of URLs handed to executor.submit
    metrics,            \* the ScraperMetrics object, but its lock
    lock,               \* holder of metrics.lock: Free, or a task
    task,               \* per future: pc, position in the chain, result
    collected,          \* futures as_completed has yielded
    articles,           \* list of the results appended by the coordinator
    stats,              \* the last get_progress_stats() of the coordinator
    report,             \* what generate_report() read, or NoReport
    error_log,          \* rows save_error_log() wrote, or NoFile
    \* ---- __main__ of article_scraper.py
    output_articles_deduped,  \* the scraped records after drop_duplicates
    joined,             \* the search results joined with the scraped records
    \* ---- history of the scraper (not program state)
    invoked,            \* per task: names of the strategies called, in order
    last_outcome,       \* per task: what the last strategy call met
    strategy_failures,  \* per task: number of strategy calls that failed
    calls,              \* per task: record_success and record_failure calls made
    \* ---- threads calling into one ScraperMetrics object
    thread,             \* per thread: pc, the call it makes, the values it read
    \* ---- the retry loop of the walker under any SERP_RETRY_ATTEMPTS
    retry_budget,       \* config.SERP_RETRY_ATTEMPTS
    retry_attempt,      \* attempt of the for loop
    retry_error,        \* what the last fetch raised: "none", "http429", "timeout"
    retry_delay,        \* milliseconds slept before this attempt
    \* ---- the walker run twice against mocked responses
    responses,          \* the fixed sequence of outcomes requests.get is given
    cursor,             \* the next of them
    run,                \* 1 or 2; 0 when nothing is replayed
    first_results,      \* what the first run returned
    \* ---- lines 130-139 of collect_results.py on one parsed page
    organic,            \* parsed["organic"]: per entry, the fields it has
    data,               \* the records appended to query_results
    frame_pc,           \* "parsed", then "appended"
    \* ---- run_pipeline of main_cli.py
    disk,               \* config.CHECKPOINT_DIR: the run directories, by name
    pipeline_run,       \* number of run_pipeline calls so far
    ppc,                \* position of run_pipeline
    resume,             \* the argument
    checkpoint_manager, \* the run directory of the manager, or None
    held_at_start,      \* history: metadata of the latest run at the call
    reference_df,       \* data of step 1
    results_df,         \* data of step 3
    stage_calls,        \* history: the stage functions invoked by this call
    \* ---- CheckpointManager objects of the first run directory
    managers,           \* per manager, in creation order: self.metadata
    last_save,          \* history: per stage, the last save if it succeeded
    last_load,          \* history: the load_checkpoint since the last save
    \* ---- press_release_collection of main.py
    collection_runs,    \* the BigQuery table, one row per invocation
    cpc,                \* position of the invocation
    params,             \* the validated request
    effective_start_date,
    queries_to_execute, \* the list passed to collect_search_results
    serp_stats,         \* stats['all_queries'], None while not set
    lookup_raised,      \* history: the query of executed queries raised
    serp_fetched,       \* history: queries the walker has fetched
    reported_failed,    \* history: failed_queries of the walker
    \* ---- URLTracker in run_pipeline of main_cli.py
    tracking_file,      \* config.PROCESSED_URLS_FILE: the URLs in it
    processed_urls,     \* tracker.processed_urls
    links,              \* results_df['link'] after deduplication
    scraped_ok,         \* history: URLs whose extraction has succeeded
    returncode,         \* of the article scraper process
    tkpc                \* position of run_pipeline after step 3

walkerVars == <<proxy_configured, search_queries, max_pages, wpc, qi, current_url,
                page_count, query_results, full_results, failed_queries, attempt,
                success, log_url, last_tag, fetches, transient_errs,
                unexpected_errs, slept>>

scraperVars == <<urls, max_workers, spc, submitted, metrics, lock, task, collected,
                 articles, stats, report, error_log, output_articles_deduped,
                 joined, invoked, last_outcome, strategy_failures, calls>>

\* the retry budget of the walker as a setting
retryVars == <<retry_budget, retry_attempt, retry_error, retry_delay>>

\* two runs of the walker against the same mocked responses
replayVars == <<responses, cursor, run, first_results>>

\* one parsed page turned into records
frameVars == <<organic, data, frame_pc>>

\* run_pipeline of main_cli.py and the checkpoint directories
pipelineVars == <<disk, pipeline_run, ppc, resume, checkpoint_manager,
                  held_at_start, reference_df, results_df, stage_calls>>

\* the managers of one run directory
checkpointVars == <<managers, last_save, last_load>>

\* press_release_collection of main.py and the collection_runs table
cloudVars == <<collection_runs, cpc, params, effective_start_date,
               queries_to_execute, serp_stats, lookup_raised, serp_fetched,
               reported_failed>>

\* the URL tracker of deduplication.py in run_pipeline of main_cli.py
trackerVars == <<tracking_file, processed_urls, links, scraped_ok, returncode,
                 tkpc>>

storeVars == <<checkpointVars, cloudVars, trackerVars>>

sideVars == <<retryVars, replayVars, frameVars, pipelineVars, storeVars>>

vars == <<walkerVars, scraperVars, thread, sideVars>>

\* ------------------------------------------------------------- the walker

\* What one requests.get + raise_for_status + json.loads + the use of the
\* payload can come to.  kind "ok": status 200 and a JSON body, with or
\* without organic entries and with or without pagination.next_page_link;
\* "unexpected": any exception that is not a requests exception (a payload
\* without general.query, a payload that is not an object, ...).
FetchOutcomes ==
    [kind : {"ok"}, organic : BOOLEAN, next : BOOLEAN, status : {200}]
    \cup [kind : {"json_error", "timeout", "connection_error", "unexpected"},
          organic : {FALSE}, next : {FALSE}, status : {0}]
    \cup [kind : {"http_error"}, organic : {FALSE}, next : {FALSE},
          status : {404, 429, 500}]

\* status 200 and a JSON body with organic entries and general.query whose
\* "pagination" entry is not an object with a string link (a non-empty list,
\* a link that is a number): lines 130-139 pass, lines 142-144 raise
MalformedPagination ==
    [kind |-> "bad_pagination", organic |-> TRUE, next |-> FALSE, status |-> 200]

\* the name under which the history keeps an outcome
LogTag(o) ==
    CASE o.kind = "ok" /\ o.organic -> "ok"
      [] o.kind = "ok" /\ ~o.organic -> "empty"
      [] o.kind = "http_error" /\ o.status = 429 -> "http429"
      [] o.kind = "http_error" /\ o.status \in 400..499 /\ o.status # 429 -> "http4xx"
      [] o.kind = "http_error" -> "http5xx"
      [] o.kind = "bad_pagination" -> "unexpected"
      [] OTHER -> o.kind

RECURSIVE Pow2(_)
Pow2(n) == IF n = 0 THEN 1 ELSE 2 * Pow2(n - 1)

\* time.sleep(2 ** attempt), in milliseconds
BackoffMs(a) == 1000 * Pow2(a)

\* time.sleep(10 * (attempt + 1)), in milliseconds
RateLimitBackoffMs(a) == 10000 * (a + 1)

\* the data frame of one accepted page: required columns + the query column
PageFrame(q, p) == [query |-> q, page |-> p]

\* ------------------------------------------------------------ the scraper

Free == 0

\* the fallback chain of scrape_single_article, in its order
Scrapers == <<"newspaper3k", "trafilatura", "readability", "goose3">>

\* a strategy's return value None, and a returned article
NoResult ==
    [ok |-> FALSE, url |-> "", scraper_used |-> "", text_len |-> 0, exc |-> ""]
Article(url, text, name) ==
    [ok |-> TRUE, url |-> url, scraper_used |-> name, text_len |-> text.stripped,
     exc |-> ""]
\* a call that ends with exception e instead of a return value
Raised(e) ==
    [ok |-> FALSE, url |-> "", scraper_used |-> "", text_len |-> 0, exc |-> e]

\* The text a library extracts: None, or a string of which the model keeps
\* the length and the length after strip().
NoText == [raw |-> -1, stripped |-> -1]
Texts == {NoText,
          [raw |-> 0, stripped |-> 0],
          [raw |-> MIN_TEXT_LEN + 20, stripped |-> MIN_TEXT_LEN - 1],
          [raw |-> MIN_TEXT_LEN, stripped |-> MIN_TEXT_LEN]}

\* What the download and extraction inside one strategy come to: an
\* exception of some kind, or an extracted text.
StrategyOutcomes ==
    [raises : {"timeout", "connection_error", "parse_error"}, text : {NoText}]
    \cup [raises : {"none"}, text : Texts]

\* the gate on the length of the text as extracted, not of text.strip()
TooShort_RawLen(text) ==
    \/ text = NoText
    \/ text.raw = 0
    \/ text.raw < MIN_TEXT_LEN

\* `not text or len(text.strip()) < 100`
TooShort(text) ==
    \/ text = NoText
    \/ text.raw = 0
    \/ text.stripped < MIN_TEXT_LEN

\* scrape_with_newspaper without its try/except: the exception leaves it
scrape_with_newspaper_NoExcept(url, o) ==
    IF o.raises # "none" THEN Raised(o.raises)
    ELSE IF TooShort(o.text) THEN NoResult
    ELSE Article(url, o.text, "newspaper3k")

scrape_with_newspaper(url, o) ==
    IF o.raises # "none" THEN NoResult                \* except: return None
    ELSE IF TooShort(o.text) THEN NoResult
    ELSE Article(url, o.text, "newspaper3k")

\* scrape_with_trafilatura with the tag of another strategy in its record
scrape_with_trafilatura_WrongTag(url, o) ==
    IF o.raises # "none" THEN NoResult
    ELSE IF TooShort(o.text) THEN NoResult
    ELSE Article(url, o.text, "newspaper3k")

scrape_with_trafilatura(url, o) ==
    IF o.raises # "none" THEN NoResult
    ELSE IF TooShort(o.text) THEN NoResult
    ELSE Article(url, o.text, "trafilatura")

scrape_with_readability(url, o) ==
    IF o.raises # "none" THEN NoResult
    ELSE IF TooShort(o.text) THEN NoResult
    ELSE Article(url, o.text, "readability")

scrape_with_goose(url, o) ==
    IF o.raises # "none" THEN NoResult
    ELSE IF TooShort(o.text) THEN NoResult
    ELSE Article(url, o.text, "goose3")

\* scraper_func() of the idx-th entry of the chain
CallScraper(idx, url, o) ==
    CASE idx = 1 -> scrape_with_newspaper(url, o)
      [] idx = 2 -> scrape_with_trafilatura(url, o)
      [] idx = 3 -> scrape_with_readability(url, o)
      [] idx = 4 -> scrape_with_goose(url, o)

\* ---- ScraperMetrics

ErrorTypes == {"All Scrapers Failed"}

\* ScraperMetrics.__init__
NewMetrics ==
    [total |-> 0, successful |-> 0, failed |-> 0,
     error_counts |-> [e \in ErrorTypes |-> 0],
     scraper_counts |-> [n \in {Scrapers[k] : k \in 1..Len(Scrapers)} |-> 0],
     failed_urls |-> <<>>,
     processing_times |-> <<>>,
     started |-> FALSE]

\* ScraperMetrics.start, the body under the lock
start(m, n) == [m EXCEPT !.total = n, !.started = TRUE]

\* record_success with the timing sample left out
record_success_NoSample(m, processing_time, scraper_used) ==
    [m EXCEPT !.successful = @ + 1,
              !.scraper_counts[scraper_used] = @ + 1]

\* ScraperMetrics.record_success, the body under the lock
record_success(m, processing_time, scraper_used) ==
    [m EXCEPT !.successful = @ + 1,
              !.processing_times = Append(@, processing_time),
              !.scraper_counts[scraper_used] = @ + 1]

\* record_failure with the increment of the counter left out
record_failure_NoCount(m, url, error_type, error_message) ==
    [m EXCEPT !.error_counts[error_type] = @ + 1,
              !.failed_urls = Append(@, [url |-> url, error_type |-> error_type,
                                         error_message |-> error_message])]

\* ScraperMetrics.record_failure, the body under the lock
record_failure(m, url, error_type, error_message) ==
    [m EXCEPT !.failed = @ + 1,
              !.error_counts[error_type] = @ + 1,
              !.failed_urls = Append(@, [url |-> url, error_type |-> error_type,
                                         error_message |-> error_message])]

\* ScraperMetrics.get_progress_stats, the body under the lock
get_progress_stats(m) ==
    [success |-> m.successful, failed |-> m.failed, total |-> m.total]

NoReport == [total |-> -1, successful |-> -1, failed |-> -1]

\* generate_report left by the ZeroDivisionError of line 158
ReportRaises == [total |-> -2, successful |-> -2, failed |-> -2]

\* ScraperMetrics.generate_report: the counts the report prints.  Before
\* start() the start_time is None, elapsed_time is 0 (line 143) and the
\* throughput of line 158 divides by it; after start() time has passed.
generate_report(m) ==
    IF m.started
    THEN [total |-> m.total, successful |-> m.successful, failed |-> m.failed]
    ELSE ReportRaises

NoStats == [success |-> -1, failed |-> -1, total |-> -1]
NoFile == <<"no file">>

\* save_error_log writing a file whether or not there is a row
save_error_log_AlwaysWrites(m) == m.failed_urls

\* ScraperMetrics.save_error_log: the rows written (and True returned), or
\* NoFile (and False returned)
save_error_log(m) ==
    IF m.failed_urls # <<>> THEN m.failed_urls ELSE NoFile

\* ---- the tasks and the coordinator

Tasks == 1..Len(urls)

\* last_error of scrape_single_article before any strategy is called
DefaultError == "All scrapers failed"

NewTask == [pc |-> "unsubmitted", idx |-> 0, result |-> NoResult,
            last_error |-> DefaultError]

\* tasks a worker thread of the pool is running
InFlight == {i \in Tasks : task[i].pc \notin {"unsubmitted", "queued", "done"}}

RECURSIVE SeqsUpTo(_, _)
\* all lists over S of length at most n
SeqsUpTo(S, n) ==
    IF n = 0 THEN {<<>>}
    ELSE LET shorter == SeqsUpTo(S, n - 1)
         IN  shorter \cup {Append(s, x) : s \in shorter, x \in S}

InitScraperVars(urlLists, workers) ==
    /\ urls \in urlLists
    /\ max_workers \in workers
    /\ spc = "start"
    /\ submitted = 0
    /\ metrics = NewMetrics
    /\ lock = Free
    /\ task = [i \in 1..Len(urls) |-> NewTask]
    /\ collected = {}
    /\ articles = <<>>
    /\ stats = NoStats
    /\ report = NoReport
    /\ error_log = NoFile
    /\ output_articles_deduped = <<>>
    /\ joined = <<>>
    /\ invoked = [i \in 1..Len(urls) |-> <<>>]
    /\ last_outcome = [i \in 1..Len(urls) |-> "none"]
    /\ strategy_failures = [i \in 1..Len(urls) |-> 0]
    /\ calls = [i \in 1..Len(urls) |-> [success |-> 0, failure |-> 0]]

\* ------------------------------------------------------------- the walker

InitWalkerVars(proxies, queryLists, pageCaps) ==
    /\ proxy_configured \in proxies
    /\ search_queries \in queryLists
    /\ max_pages \in pageCaps
    /\ wpc = "start"
    /\ qi = 0
    /\ current_url = None
    /\ page_count = 0
    /\ query_results = <<>>
    /\ full_results = <<>>
    /\ failed_queries = <<>>
    /\ attempt = 0
    /\ success = FALSE
    /\ log_url = <<>>
    /\ last_tag = "none"
    /\ fetches = 0
    /\ transient_errs = 0
    /\ unexpected_errs = 0
    /\ slept = 0

\* the walker without its proxy check
CheckConfig_NoCheck ==
    /\ wpc = "start"
    /\ UNCHANGED <<scraperVars, thread, sideVars>>
    /\ wpc' = "for_query"
    /\ qi' = 1
    /\ UNCHANGED <<proxy_configured, search_queries, max_pages, current_url,
                   page_count, query_results, full_results, failed_queries,
                   attempt, success, log_url, last_tag, fetches,
                   transient_errs, unexpected_errs, slept>>

\* lines 43-82: the proxy check, the accumulators, the progress bar
CheckConfig ==
    /\ wpc = "start"
    /\ UNCHANGED <<scraperVars, thread, sideVars>>
    /\ wpc' = IF proxy_configured THEN "for_query" ELSE "raised"
    /\ qi' = 1
    /\ UNCHANGED <<proxy_configured, search_queries, max_pages, current_url,
                   page_count, query_results, full_results, failed_queries,
                   attempt, success, log_url, last_tag, fetches,
                   transient_errs, unexpected_errs, slept>>

\* lines 85-88: the for loop takes the next query
NextQuery ==
    /\ wpc = "for_query"
    /\ UNCHANGED <<scraperVars, thread, sideVars>>
    /\ qi <= Len(search_queries)
    /\ current_url' = 1
    /\ page_count' = 0
    /\ query_results' = <<>>
    /\ wpc' = "while"
    /\ UNCHANGED <<proxy_configured, search_queries, max_pages, qi, full_results,
                   failed_queries, attempt, success, log_url, last_tag, fetches,
                   transient_errs, unexpected_errs, slept>>

\* the loop condition with `<=` for `<`
WhileEnter_OffByOne ==
    /\ wpc = "while"
    /\ UNCHANGED <<scraperVars, thread, sideVars>>
    /\ current_url # None /\ page_count <= max_pages
    /\ success' = FALSE
    /\ attempt' = 0
    /\ wpc' = IF SERP_RETRY_ATTEMPTS > 0 THEN "attempt" ELSE "after_for"
    /\ UNCHANGED <<proxy_configured, search_queries, max_pages, qi, current_url,
                   page_count, query_results, full_results, failed_queries,
                   log_url, last_tag, fetches,
                   transient_errs, unexpected_errs, slept>>

\* line 91 true, lines 92-95: a page is to be fetched, the retry loop starts
WhileEnter ==
    /\ wpc = "while"
    /\ UNCHANGED <<scraperVars, thread, sideVars>>
    /\ current_url # None /\ page_count < max_pages
    /\ success' = FALSE
    /\ attempt' = 0
    /\ wpc' = IF SERP_RETRY_ATTEMPTS > 0 THEN "attempt" ELSE "after_for"
    /\ UNCHANGED <<proxy_configured, search_queries, max_pages, qi, current_url,
                   page_count, query_results, full_results, failed_queries,
                   log_url, last_tag, fetches,
                   transient_errs, unexpected_errs, slept>>

\* the frames of the query put in front of full_results
WhileExit_Prepend ==
    /\ wpc = "while"
    /\ UNCHANGED <<scraperVars, thread, sideVars>>
    /\ ~(current_url # None /\ page_count < max_pages)
    /\ full_results' = query_results \o full_results
    /\ slept' = slept + QUERY_DELAY_MS
    /\ qi' = qi + 1
    /\ wpc' = "for_query"
    /\ UNCHANGED <<proxy_configured, search_queries, max_pages, current_url,
                   page_count, query_results, failed_queries, attempt, success,
                   log_url, last_tag, fetches,
                   transient_errs, unexpected_errs>>

\* line 91 false, lines 186-197: the query's frames join full_results, the
\* pause between queries, the for loop advances
WhileExit ==
    /\ wpc = "while"
    /\ UNCHANGED <<scraperVars, thread, sideVars>>
    /\ ~(current_url # None /\ page_count < max_pages)
    /\ full_results' = full_results \o query_results
    /\ slept' = slept + QUERY_DELAY_MS
    /\ qi' = qi + 1
    /\ wpc' = "for_query"
    /\ UNCHANGED <<proxy_configured, search_queries, max_pages, current_url,
                   page_count, query_results, failed_queries, attempt, success,
                   log_url, last_tag, fetches,
                   transient_errs, unexpected_errs>>

Min(a, b) == IF a < b THEN a ELSE b

IsTransient(tag) == tag \in {"timeout", "connection_error"}

\* the history of the fetches of one page URL
LogFetch(o) ==
    LET url == <<qi, current_url>>
        same == log_url = url
        t == IF IsTransient(LogTag(o)) THEN 1 ELSE 0
        u == IF LogTag(o) = "unexpected" THEN 1 ELSE 0
    IN  /\ log_url' = url
        /\ last_tag' = LogTag(o)
        /\ fetches' = IF same THEN Min(fetches + 1, MaxFetches) ELSE 1
        /\ transient_errs' = IF same THEN Min(transient_errs + t, MaxFetches) ELSE t
        /\ unexpected_errs' = IF same THEN Min(unexpected_errs + u, MaxFetches) ELSE u

\* `continue` after time.sleep(ms): the next attempt of the retry loop
RetryAfter(ms) ==
    /\ attempt' = attempt + 1
    /\ slept' = ms
    /\ wpc' = "attempt"
    /\ UNCHANGED <<current_url, page_count, query_results, success>>

\* `break` without a page accepted
GiveUp ==
    /\ slept' = 0
    /\ wpc' = "after_for"
    /\ UNCHANGED <<current_url, page_count, query_results, success, attempt>>

\* lines 126-128: the payload has no organic entries
NoOrganic == GiveUp

\* lines 130-148: the page is accepted
AcceptPage(o) ==
    /\ query_results' = Append(query_results,
                               PageFrame(search_queries[qi], current_url))
    /\ current_url' = IF o.next THEN current_url + 1 ELSE None
    /\ page_count' = page_count + 1
    /\ success' = TRUE
    /\ slept' = 0
    /\ wpc' = "after_for"
    /\ UNCHANGED attempt

\* lines 110-124: json.loads raised JSONDecodeError
OnJSONDecodeError ==
    IF attempt < SERP_RETRY_ATTEMPTS - 1
    THEN RetryAfter(BackoffMs(attempt))
    ELSE NoOrganic     \* parsed = {"organic": []}

\* a timeout that ends the retry loop at once
OnTimeout_NoRetry == GiveUp

\* lines 150-156
OnTimeout ==
    IF attempt < SERP_RETRY_ATTEMPTS - 1
    THEN RetryAfter(BackoffMs(attempt))
    ELSE GiveUp

\* lines 158-168
OnHTTPError(status_code) ==
    IF status_code = 429 /\ attempt < SERP_RETRY_ATTEMPTS - 1
    THEN RetryAfter(RateLimitBackoffMs(attempt))
    ELSE IF attempt < SERP_RETRY_ATTEMPTS - 1
         THEN RetryAfter(BackoffMs(attempt))
         ELSE GiveUp

\* lines 170-176
OnRequestException ==
    IF attempt < SERP_RETRY_ATTEMPTS - 1
    THEN RetryAfter(BackoffMs(attempt))
    ELSE GiveUp

\* the frames of the run so far that line 139 appended for a page that was
\* not accepted then
UnacceptedFrames ==
    (Len(full_results) - Cardinality({full_results[k] : k \in DOMAIN full_results}))
    + (Len(query_results) - page_count)

\* lines 130-144, then 178-180: the frame of the page is appended (line
\* 139) and the pagination entry of the payload is not what lines 142-144
\* take it to be (a list for the object, a number for the link), so they
\* raise and `except Exception` breaks the retry loop
RaiseAfterAppend ==
    /\ query_results' = IF UnacceptedFrames < MaxFrames
                        THEN Append(query_results,
                                    PageFrame(search_queries[qi], current_url))
                        ELSE query_results
    /\ slept' = 0
    /\ wpc' = "after_for"
    /\ UNCHANGED <<current_url, page_count, success, attempt>>

\* lines 178-180
OnException == GiveUp

\* lines 96-180: what the walker does with the outcome o of its request
FetchResponse(o) ==
    /\ LogFetch(o)
    /\ CASE o.kind = "ok" /\ ~o.organic -> NoOrganic
         [] o.kind = "ok" /\ o.organic -> AcceptPage(o)
         [] o.kind = "json_error" -> OnJSONDecodeError
         [] o.kind = "timeout" -> OnTimeout
         [] o.kind = "http_error" -> OnHTTPError(o.status)
         [] o.kind = "connection_error" -> OnRequestException
         [] o.kind = "unexpected" -> OnException
         [] o.kind = "bad_pagination" -> RaiseAfterAppend
    /\ UNCHANGED <<proxy_configured, search_queries, max_pages, qi, full_results,
                   failed_queries>>

\* lines 96-180: one pass of the retry loop, the request and what follows it
Fetch ==
    /\ wpc = "attempt"
    /\ UNCHANGED <<scraperVars, thread, sideVars>>
    /\ \E o \in FetchOutcomes : FetchResponse(o)

\* lines 96-180: one pass of the retry loop whose request is answered with a
\* payload of malformed pagination
FetchMalformed ==
    /\ wpc = "attempt"
    /\ UNCHANGED <<scraperVars, thread, sideVars>>
    /\ FetchResponse(MalformedPagination)

\* one pass of the retry loop against mocked responses: the request gets
\* the next response of the fixed sequence
FetchMocked ==
    /\ wpc = "attempt"
    /\ cursor <= Len(responses)
    /\ FetchResponse(responses[cursor])
    /\ cursor' = cursor + 1
    /\ UNCHANGED <<responses, run, first_results>>
    /\ UNCHANGED <<scraperVars, thread, retryVars, frameVars,
                   pipelineVars, storeVars>>

\* lines 182-184, then back to the test of the while loop
AfterFor ==
    /\ wpc = "after_for"
    /\ UNCHANGED <<scraperVars, thread, sideVars>>
    /\ failed_queries' = IF ~success /\ page_count = 0
                            /\ Len(failed_queries) < MaxFailed
                         THEN Append(failed_queries, search_queries[qi])
                         ELSE failed_queries
    /\ wpc' = "while"
    /\ UNCHANGED <<proxy_configured, search_queries, max_pages, qi, current_url,
                   page_count, query_results, full_results, attempt, success,
                   log_url, last_tag, fetches,
                   transient_errs, unexpected_errs, slept>>

\* lines 199-216: the for loop is over, the function returns
Return ==
    /\ wpc = "for_query"
    /\ UNCHANGED <<scraperVars, thread, sideVars>>
    /\ qi > Len(search_queries)
    /\ wpc' = "returned"
    /\ UNCHANGED <<proxy_configured, search_queries, max_pages, qi, current_url,
                   page_count, query_results, full_results, failed_queries,
                   attempt, success, log_url, last_tag, fetches,
                   transient_errs, unexpected_errs, slept>>

\* ---- scrape_single_article, run by a worker thread of the pool

\* a pool that starts a queued task whether or not a worker is free
StartTask_NoCap(i) ==
    /\ task[i].pc = "queued"
    /\ \A j \in Tasks : j < i => task[j].pc # "queued"
    /\ task' = [task EXCEPT ![i] = [pc |-> "chain", idx |-> 1, result |-> NoResult,
                                    last_error |-> DefaultError]]
    /\ UNCHANGED <<urls, max_workers, spc, submitted, metrics, lock, collected,
                   articles, stats, report, error_log, output_articles_deduped,
                   joined, invoked, last_outcome, strategy_failures, calls>>
    /\ UNCHANGED <<walkerVars, thread, sideVars>>

\* the pool hands the oldest queued task to a free worker; lines 347-359
StartTask(i) ==
    /\ task[i].pc = "queued"
    /\ \A j \in Tasks : j < i => task[j].pc # "queued"
    /\ Cardinality(InFlight) < max_workers
    /\ task' = [task EXCEPT ![i] = [pc |-> "chain", idx |-> 1, result |-> NoResult,
                                    last_error |-> DefaultError]]
    /\ UNCHANGED <<urls, max_workers, spc, submitted, metrics, lock,
                   collected, articles, stats, report, error_log,
                   output_articles_deduped, joined, invoked, last_outcome,
                   strategy_failures, calls>>
    /\ UNCHANGED <<walkerVars, thread, sideVars>>

\* the name under which the history keeps what a strategy call met
OutcomeTag(o) ==
    IF o.raises # "none" THEN o.raises
    ELSE IF TooShort(o.text) THEN "short" ELSE "content"

\* lines 376-379: f"{scraper_name} failed: {str(e)}"
FailedMessage(idx) == <<Scrapers[idx], "failed">>

\* the chain given up one strategy before its end
ChainStep_GiveUpEarly(t, r) ==
    LET err == IF r.exc # "" THEN FailedMessage(t.idx) ELSE t.last_error
    IN  IF r.ok
        THEN [t EXCEPT !.pc = "record_success", !.result = r]
        ELSE IF t.idx < Len(Scrapers) - 1
             THEN [t EXCEPT !.idx = @ + 1, !.last_error = err]
             ELSE [t EXCEPT !.pc = "record_failure", !.last_error = err]

\* the task after the call of strategy t.idx came to r: an accepted result
\* ends the chain, None or an exception (lines 376-379) moves to the next
\* strategy, and after the last one to record_failure
ChainStep(t, r) ==
    LET err == IF r.exc # "" THEN FailedMessage(t.idx) ELSE t.last_error
    IN  IF r.ok
        THEN [t EXCEPT !.pc = "record_success", !.result = r]
        ELSE IF t.idx < Len(Scrapers)
             THEN [t EXCEPT !.idx = @ + 1, !.last_error = err]
             ELSE [t EXCEPT !.pc = "record_failure", !.last_error = err]

\* the for loop without its `return result`: an accepted result does not
\* end the chain
InvokeScraper_NoShortCircuit(i) ==
    /\ task[i].pc = "chain"
    /\ \E o \in StrategyOutcomes :
        LET idx == task[i].idx
            result == CallScraper(idx, urls[i], o)
            kept == IF result.ok THEN result ELSE task[i].result
        IN  /\ task' = [task EXCEPT ![i] =
                    IF idx < Len(Scrapers)
                    THEN [@ EXCEPT !.idx = idx + 1, !.result = kept]
                    ELSE IF kept.ok
                         THEN [@ EXCEPT !.pc = "record_success", !.result = kept]
                         ELSE [@ EXCEPT !.pc = "record_failure"]]
            /\ invoked' = [invoked EXCEPT ![i] = Append(@, Scrapers[idx])]
            /\ last_outcome' = [last_outcome EXCEPT ![i] = OutcomeTag(o)]
            /\ strategy_failures' = [strategy_failures EXCEPT ![i] =
                                         IF result.ok THEN @ ELSE @ + 1]
    /\ UNCHANGED <<urls, max_workers, spc, submitted, metrics, lock,
                   collected, articles, stats, report, error_log,
                   output_articles_deduped, joined, calls>>
    /\ UNCHANGED <<walkerVars, thread, sideVars>>

\* lines 360-379: one pass of the for loop over the chain
InvokeScraper(i) ==
    /\ task[i].pc = "chain"
    /\ \E o \in StrategyOutcomes :
        LET idx == task[i].idx
            result == CallScraper(idx, urls[i], o)
        IN  /\ task' = [task EXCEPT ![i] = ChainStep(@, result)]
            /\ invoked' = [invoked EXCEPT ![i] = Append(@, Scrapers[idx])]
            /\ last_outcome' = [last_outcome EXCEPT ![i] = OutcomeTag(o)]
            /\ strategy_failures' = [strategy_failures EXCEPT ![i] =
                                         IF result.ok THEN @ ELSE @ + 1]
    /\ UNCHANGED <<urls, max_workers, spc, submitted, metrics, lock,
                   collected, articles, stats, report, error_log,
                   output_articles_deduped, joined, calls>>
    /\ UNCHANGED <<walkerVars, thread, sideVars>>

\* `with self.lock:` of record_success or record_failure is entered
AcquireLock(i) ==
    /\ task[i].pc \in {"record_success", "record_failure"}
    /\ lock = Free
    /\ lock' = i
    /\ UNCHANGED <<urls, max_workers, spc, submitted, metrics, task,
                   collected, articles, stats, report, error_log,
                   output_articles_deduped, joined, invoked, last_outcome,
                   strategy_failures, calls>>
    /\ UNCHANGED <<walkerVars, thread, sideVars>>

\* record_success, and then on to record_failure instead of `return result`
RecordSuccess_NoReturn(i) ==
    /\ task[i].pc = "record_success"
    /\ lock = i
    /\ metrics' = record_success(metrics, "dt", task[i].result.scraper_used)
    /\ lock' = Free
    /\ calls' = [calls EXCEPT ![i].success = @ + 1]
    /\ task' = [task EXCEPT ![i].pc = "record_failure"]
    /\ UNCHANGED <<urls, max_workers, spc, submitted, collected, articles,
                   stats, report, error_log, output_articles_deduped, joined,
                   invoked, last_outcome, strategy_failures>>
    /\ UNCHANGED <<walkerVars, thread, sideVars>>

\* lines 366-374 and 112-117: the body of record_success, the lock released,
\* time.sleep(RATE_LIMIT_DELAY), return result
RecordSuccess(i) ==
    /\ task[i].pc = "record_success"
    /\ lock = i
    /\ metrics' = record_success(metrics, "dt", task[i].result.scraper_used)
    /\ lock' = Free
    /\ calls' = [calls EXCEPT ![i].success = @ + 1]
    /\ task' = [task EXCEPT ![i].pc = "done"]
    /\ UNCHANGED <<urls, max_workers, spc, submitted, collected, articles,
                   stats, report, error_log, output_articles_deduped, joined,
                   invoked, last_outcome, strategy_failures>>
    /\ UNCHANGED <<walkerVars, thread, sideVars>>

\* record_failure that returns without releasing the lock
RecordFailure_KeepsLock(i) ==
    /\ task[i].pc = "record_failure"
    /\ lock = i
    /\ metrics' = record_failure(metrics, urls[i], "All Scrapers Failed",
                                 task[i].last_error)
    /\ calls' = [calls EXCEPT ![i].failure = @ + 1]
    /\ task' = [task EXCEPT ![i].pc = "done"]
    /\ UNCHANGED <<urls, max_workers, spc, submitted, lock, collected, articles,
                   stats, report, error_log, output_articles_deduped, joined,
                   invoked, last_outcome, strategy_failures>>
    /\ UNCHANGED <<walkerVars, thread, sideVars>>

\* lines 381-383 and 119-129: the body of record_failure, the lock released,
\* return None
RecordFailure(i) ==
    /\ task[i].pc = "record_failure"
    /\ lock = i
    /\ metrics' = record_failure(metrics, urls[i], "All Scrapers Failed",
                                 task[i].last_error)
    /\ lock' = Free
    /\ calls' = [calls EXCEPT ![i].failure = @ + 1]
    /\ task' = [task EXCEPT ![i].pc = "done"]
    /\ UNCHANGED <<urls, max_workers, spc, submitted, collected, articles,
                   stats, report, error_log, output_articles_deduped, joined,
                   invoked, last_outcome, strategy_failures>>
    /\ UNCHANGED <<walkerVars, thread, sideVars>>

\* ---- scrape_articles_concurrent, the coordinating thread

\* lines 397-416: ScraperMetrics(), metrics.start(len(urls)), the progress bar
StartRun ==
    /\ spc = "start"
    /\ lock = Free
    /\ metrics' = start(metrics, Len(urls))
    /\ spc' = "submit"
    /\ UNCHANGED <<urls, max_workers, submitted, lock, task, collected,
                   articles, stats, report, error_log,
                   output_articles_deduped, joined, invoked, last_outcome,
                   strategy_failures, calls>>
    /\ UNCHANGED <<walkerVars, thread, sideVars>>

\* lines 421-424: executor.submit for the next URL of the list
Submit ==
    /\ spc = "submit"
    /\ submitted < Len(urls)
    /\ submitted' = submitted + 1
    /\ task' = [task EXCEPT ![submitted + 1].pc = "queued"]
    /\ UNCHANGED <<urls, max_workers, spc, metrics, lock, collected, articles,
                   stats, report, error_log, output_articles_deduped, joined,
                   invoked, last_outcome, strategy_failures, calls>>
    /\ UNCHANGED <<walkerVars, thread, sideVars>>

\* every URL is submitted: the as_completed loop starts
AllSubmitted ==
    /\ spc = "submit"
    /\ submitted = Len(urls)
    /\ spc' = "as_completed"
    /\ UNCHANGED <<urls, max_workers, submitted, metrics, lock, task,
                   collected, articles, stats, report, error_log,
                   output_articles_deduped, joined, invoked, last_outcome,
                   strategy_failures, calls>>
    /\ UNCHANGED <<walkerVars, thread, sideVars>>

\* lines 427-440: as_completed yields a finished future, its result is
\* appended when it is not None, get_progress_stats() under the lock
Collect(i) ==
    /\ spc = "as_completed"
    /\ i \notin collected
    /\ task[i].pc = "done"
    /\ lock = Free
    /\ collected' = collected \cup {i}
    /\ articles' = IF task[i].result.ok THEN Append(articles, task[i].result)
                   ELSE articles
    /\ stats' = get_progress_stats(metrics)
    /\ UNCHANGED <<urls, max_workers, spc, submitted, metrics, lock, task,
                   report, error_log, output_articles_deduped, joined,
                   invoked, last_outcome, strategy_failures, calls>>
    /\ UNCHANGED <<walkerVars, thread, sideVars>>

\* lines 419 and 442-445: as_completed is exhausted, the executor shuts down
\* (it waits for every task), generate_report() under the lock
Report ==
    /\ spc = "as_completed"
    /\ collected = Tasks
    /\ \A i \in Tasks : task[i].pc = "done"
    /\ lock = Free
    /\ report' = generate_report(metrics)
    /\ spc' = "save_error_log"
    /\ UNCHANGED <<urls, max_workers, submitted, metrics, lock, task,
                   collected, articles, stats, error_log,
                   output_articles_deduped, joined, invoked, last_outcome,
                   strategy_failures, calls>>
    /\ UNCHANGED <<walkerVars, thread, sideVars>>

\* lines 447-451: the error log when a failure was counted, return articles
SaveAndReturn ==
    /\ spc = "save_error_log"
    /\ error_log' = IF metrics.failed > 0 THEN save_error_log(metrics) ELSE NoFile
    /\ spc' = "returned"
    /\ UNCHANGED <<urls, max_workers, submitted, metrics, lock, task,
                   collected, articles, stats, report,
                   output_articles_deduped, joined, invoked, last_outcome,
                   strategy_failures, calls>>
    /\ UNCHANGED <<walkerVars, thread, sideVars>>

\* ---- __main__ of article_scraper.py, after scrape_articles_concurrent

\* a row of results_df with the columns the merge adds: the record scraped
\* for its URL, or NoResult for NaN
JoinedRow(url, article) == [url |-> url, article |-> article]

\* the frame as it is, duplicates kept
drop_duplicates_KeepAll(frame) == frame

RECURSIVE drop_duplicates(_)
\* line 477: DataFrame.drop_duplicates(subset=['url'], keep='first')
drop_duplicates(frame) ==
    IF frame = <<>> THEN <<>>
    ELSE LET front == drop_duplicates(SubSeq(frame, 1, Len(frame) - 1))
             row == frame[Len(frame)]
         IN  IF \E k \in DOMAIN front : front[k].url = row.url
             THEN front
             ELSE Append(front, row)

\* the rows of right whose url is u, in the order of right
Matching(right, u) == SelectSeq(right, LAMBDA row : row.url = u)

\* the rows in the order of the right frame: how='right'
merge_RightOrder(left, right) ==
    [k \in DOMAIN right |-> JoinedRow(right[k].url, right[k])]

RECURSIVE merge(_, _)
\* line 481: pd.merge(left, right, how='left', on='url'): the rows of left in
\* their order, each once per matching row of right, or once with NaN
merge(left, right) ==
    IF left = <<>> THEN <<>>
    ELSE LET u == left[Len(left)]
             found == Matching(right, u)
             rows == IF found = <<>>
                     THEN <<JoinedRow(u, NoResult)>>
                     ELSE [k \in DOMAIN found |-> JoinedRow(u, found[k])]
         IN  merge(SubSeq(left, 1, Len(left) - 1), right) \o rows

\* lines 470-485: the records deduplicated and merged into the search
\* results; with no record at all joined is results_df
ProcessResults ==
    /\ spc = "returned"
    /\ spc' = "joined"
    /\ IF articles # <<>>
       THEN /\ output_articles_deduped' = drop_duplicates(articles)
            /\ joined' = merge(urls, drop_duplicates(articles))
       ELSE /\ output_articles_deduped' = <<>>
            /\ joined' = [k \in DOMAIN urls |-> JoinedRow(urls[k], NoResult)]
    /\ UNCHANGED <<urls, max_workers, submitted, metrics, lock, task, collected,
                   articles, stats, report, error_log, invoked, last_outcome,
                   strategy_failures, calls>>
    /\ UNCHANGED <<walkerVars, thread, sideVars>>

NextScraper ==
    \/ StartRun
    \/ Submit
    \/ AllSubmitted
    \/ \E i \in Tasks : StartTask(i)
    \/ \E i \in Tasks : InvokeScraper(i)
    \/ \E i \in Tasks : AcquireLock(i)
    \/ \E i \in Tasks : RecordSuccess(i)
    \/ \E i \in Tasks : RecordFailure(i)
    \/ \E i \in Tasks : Collect(i)
    \/ Report
    \/ SaveAndReturn
    \/ ProcessResults

\* ---- run_article_scraping of main.py, which runs article_scraper.py as a
\* ---- child process

\* main.py lines 209-214: timeout=3600 of subprocess.run expires while tasks
\* are outstanding. subprocess.run kills the child and raises
\* TimeoutExpired: every thread of the scraper stops where it is, and what
\* the process held in memory (left as it was, for the record) is gone.
RunTimeout ==
    /\ spc \in {"submit", "as_completed"}
    /\ \E i \in Tasks : task[i].pc # "done"
    /\ spc' = "killed"
    /\ task' = [i \in Tasks |-> [task[i] EXCEPT !.pc = "killed"]]
    /\ lock' = Free
    /\ UNCHANGED <<urls, max_workers, submitted, metrics, collected, articles,
                   stats, report, error_log, output_articles_deduped, joined,
                   invoked, last_outcome, strategy_failures, calls>>
    /\ UNCHANGED <<walkerVars, thread, sideVars>>

NextScraperTimeout ==
    \/ NextScraper
    \/ RunTimeout

\* ---- threads calling record_success and record_failure of one
\* ---- ScraperMetrics object

Threads == DOMAIN thread

\* what a thread holds before it has read the object
NoRead == [successful |-> -1]

\* the methods that change the object, and those that only read it
Writers == {"success", "failure", "start"}
Readers == {"generate_report", "get_progress_stats"}

\* a thread about to call start, record_success, record_failure,
\* generate_report or get_progress_stats; seen is history: the object as it was when a
\* reader took the lock
NewThread(kind) == [pc |-> "call", kind |-> kind, read |-> NoRead, seen |-> NoRead]

\* the body entered without `with self.lock:`
EnterLock_NoLock(t) ==
    /\ thread[t].pc = "call"
    /\ thread[t].kind \in Writers
    /\ thread' = [thread EXCEPT ![t].pc = "read"]
    /\ UNCHANGED <<walkerVars, scraperVars, sideVars>>

\* lines 114 and 121: `with self.lock:` is entered once the lock is free
EnterLock(t) ==
    /\ thread[t].pc = "call"
    /\ thread[t].kind \in Writers
    /\ lock = Free
    /\ lock' = t
    /\ thread' = [thread EXCEPT ![t].pc = "read"]
    /\ UNCHANGED <<urls, max_workers, spc, submitted, metrics, task, collected,
                   articles, stats, report, error_log, output_articles_deduped,
                   joined, invoked, last_outcome, strategy_failures, calls>>
    /\ UNCHANGED <<walkerVars, sideVars>>

\* lines 115-117 and 122-129: `+= 1` and append first read the attributes
ReadMetrics(t) ==
    /\ thread[t].pc = "read"
    /\ thread' = [thread EXCEPT ![t].pc = "write", ![t].read = metrics]
    /\ UNCHANGED <<walkerVars, scraperVars, sideVars>>

\* lines 115-117 and 122-129: the new values are stored, and the with block
\* is left, which releases the lock
WriteMetrics(t) ==
    /\ thread[t].pc = "write"
    /\ metrics' = CASE thread[t].kind = "success" ->
                         record_success(thread[t].read, "dt", Scrapers[1])
                    [] thread[t].kind = "failure" ->
                         record_failure(thread[t].read, "a", "All Scrapers Failed",
                                        DefaultError)
                    [] thread[t].kind = "start" ->
                         start(thread[t].read, 1)
    /\ lock' = IF lock = t THEN Free ELSE lock
    /\ thread' = [thread EXCEPT ![t].pc = "returned", ![t].read = NoRead]
    /\ UNCHANGED <<urls, max_workers, spc, submitted, task, collected,
                   articles, stats, report, error_log, output_articles_deduped,
                   joined, invoked, last_outcome, strategy_failures, calls>>
    /\ UNCHANGED <<walkerVars, sideVars>>

\* generate_report or get_progress_stats entered without `with self.lock:`
EnterReader_NoLock(t) ==
    /\ thread[t].pc = "call"
    /\ thread[t].kind \in Readers
    /\ thread' = [thread EXCEPT ![t].pc = "read_successful", ![t].seen = metrics]
    /\ UNCHANGED <<walkerVars, scraperVars, sideVars>>

\* lines 133 and 142: `with self.lock:` of a reading method
EnterReader(t) ==
    /\ thread[t].pc = "call"
    /\ thread[t].kind \in Readers
    /\ lock = Free
    /\ lock' = t
    /\ thread' = [thread EXCEPT ![t].pc = "read_successful", ![t].seen = metrics]
    /\ UNCHANGED <<urls, max_workers, spc, submitted, metrics, task, collected,
                   articles, stats, report, error_log, output_articles_deduped,
                   joined, invoked, last_outcome, strategy_failures, calls>>
    /\ UNCHANGED <<walkerVars, sideVars>>

\* lines 135 and 144: self.successful is read
ReadSuccessful(t) ==
    /\ thread[t].pc = "read_successful"
    /\ thread' = [thread EXCEPT ![t].pc = "read_rest",
                                ![t].read = [successful |-> metrics.successful]]
    /\ UNCHANGED <<walkerVars, scraperVars, sideVars>>

\* lines 136-137 and 145-181: the other attributes are read, the value is
\* returned and the with block left
ReadRest(t) ==
    /\ thread[t].pc = "read_rest"
    /\ LET m == [metrics EXCEPT !.successful = thread[t].read.successful]
       IN  thread' = [thread EXCEPT
                         ![t].pc = "returned",
                         ![t].read = IF thread[t].kind = "generate_report"
                                     THEN generate_report(m)
                                     ELSE get_progress_stats(m)]
    /\ lock' = IF lock = t THEN Free ELSE lock
    /\ UNCHANGED <<urls, max_workers, spc, submitted, metrics, task, collected,
                   articles, stats, report, error_log, output_articles_deduped,
                   joined, invoked, last_outcome, strategy_failures, calls>>
    /\ UNCHANGED <<walkerVars, sideVars>>

\* lines 183-189: save_error_log, which takes no lock
SaveErrorLog(t) ==
    /\ thread[t].pc = "call"
    /\ thread[t].kind = "save_error_log"
    /\ thread' = [thread EXCEPT ![t].pc = "returned",
                                ![t].seen = metrics,
                                ![t].read = save_error_log(metrics)]
    /\ UNCHANGED <<walkerVars, scraperVars, sideVars>>

NextMetrics ==
    \/ \E t \in Threads : EnterLock(t)
    \/ \E t \in Threads : ReadMetrics(t)
    \/ \E t \in Threads : WriteMetrics(t)
    \/ \E t \in Threads : EnterReader(t)
    \/ \E t \in Threads : ReadSuccessful(t)
    \/ \E t \in Threads : ReadRest(t)
    \/ \E t \in Threads : SaveErrorLog(t)

\* ---- initial states

\* the URLs of a run; a list may hold one of them more than once
UrlIds == {"a", "b"}

\* the lists of at most n URLs, the first of them "a"
UrlLists(n) == {l \in SeqsUpTo(UrlIds, n) : l # <<>> => l[1] = "a"}

WalkerIdle == InitWalkerVars({TRUE}, {<<>>}, {0})

ScraperIdle == InitScraperVars({<<>>}, {1})

ThreadsIdle == thread = <<>>

RetryIdle ==
    /\ retry_budget = 0
    /\ retry_attempt = 0
    /\ retry_error = "none"
    /\ retry_delay = 0

ReplayIdle ==
    /\ responses = <<>>
    /\ cursor = 1
    /\ run = 0
    /\ first_results = <<>>

FrameIdle ==
    /\ organic = <<>>
    /\ data = <<>>
    /\ frame_pc = "idle"

PipelineIdle ==
    /\ disk = <<>>
    /\ pipeline_run = 0
    /\ ppc = "idle"
    /\ resume = FALSE
    /\ checkpoint_manager = None
    /\ held_at_start = {}
    /\ reference_df = None
    /\ results_df = None
    /\ stage_calls = {}

CheckpointStages == {"reference_data", "serp_results"}

NoSave == [data |-> None, by |-> None, n |-> 0]

NoLoad == [manager |-> None, stage |-> "", value |-> None]

CheckpointIdle ==
    /\ managers = <<>>
    /\ last_save = [stage \in CheckpointStages |-> NoSave]
    /\ last_load = NoLoad

NoParams == [start_date |-> 0, end_date |-> 0, force_refresh |-> FALSE]

CloudIdle ==
    /\ collection_runs = <<>>
    /\ cpc = "idle"
    /\ params = NoParams
    /\ effective_start_date = 0
    /\ queries_to_execute = <<>>
    /\ serp_stats = <<>>
    /\ lookup_raised = FALSE
    /\ serp_fetched = {}
    /\ reported_failed = {}

TrackerIdle ==
    /\ tracking_file = {}
    /\ processed_urls = {}
    /\ links = {}
    /\ scraped_ok = {}
    /\ returncode = 0
    /\ tkpc = "idle"

StoreIdle == CheckpointIdle /\ CloudIdle /\ TrackerIdle

SideIdle == RetryIdle /\ ReplayIdle /\ FrameIdle /\ PipelineIdle /\ StoreIdle

InitWalker ==
    /\ InitWalkerVars(BOOLEAN, {[i \in 1..n |-> i] : n \in 0..MaxQueries},
                      0..MaxPages)
    /\ ScraperIdle
    /\ ThreadsIdle
    /\ SideIdle

InitScraper ==
    /\ InitScraperVars(UrlLists(MaxUrls), 1..MaxWorkers)
    /\ WalkerIdle
    /\ ThreadsIdle
    /\ SideIdle

NextWalker ==
    \/ CheckConfig
    \/ NextQuery
    \/ WhileEnter
    \/ WhileExit
    \/ Fetch
    \/ AfterFor
    \/ Return

SpecWalker == InitWalker /\ [][NextWalker]_vars

\* the walker against a service that also answers with malformed pagination
NextPagination ==
    \/ NextWalker
    \/ FetchMalformed

SpecPagination == InitWalker /\ [][NextPagination]_vars

\* the walker is one thread that runs whenever it can take a step
FairSpecWalker == InitWalker /\ [][NextWalker]_vars /\ WF_vars(NextWalker)

SpecScraper == InitScraper /\ [][NextScraper]_vars

\* up to MaxThreads threads, each making one call into a fresh object
InitMetrics ==
    /\ \E n \in 1..MaxThreads :
          thread \in [1..n -> {NewThread(k) :
                                  k \in Writers \cup Readers \cup {"save_error_log"}}]
    /\ ScraperIdle
    /\ WalkerIdle
    /\ SideIdle

SpecMetrics == InitMetrics /\ [][NextMetrics]_vars

\* ---- the delays of the retry loop, lines 95 and 150-176 of
\* ---- collect_results.py, for a budget read from the environment

\* lines 159-161: a 429 at an attempt that is not the last one
SleepRateLimit ==
    /\ retry_attempt < retry_budget - 1
    /\ retry_delay' = RateLimitBackoffMs(retry_attempt)
    /\ retry_error' = "http429"
    /\ retry_attempt' = retry_attempt + 1
    /\ UNCHANGED <<retry_budget, walkerVars, scraperVars, thread, replayVars, frameVars,
                   pipelineVars, storeVars>>

\* lines 150-153 and 170-173: a timeout or connection error at an attempt
\* that is not the last one
SleepBackoff ==
    /\ retry_attempt < retry_budget - 1
    /\ retry_delay' = BackoffMs(retry_attempt)
    /\ retry_error' = "timeout"
    /\ retry_attempt' = retry_attempt + 1
    /\ UNCHANGED <<retry_budget, walkerVars, scraperVars, thread, replayVars, frameVars,
                   pipelineVars, storeVars>>

InitBackoff ==
    /\ retry_budget \in 1..MaxBudget
    /\ retry_attempt = 0
    /\ retry_error = "none"
    /\ retry_delay = 0
    /\ WalkerIdle
    /\ ScraperIdle
    /\ ThreadsIdle
    /\ ReplayIdle
    /\ FrameIdle
    /\ PipelineIdle
    /\ StoreIdle

NextBackoff ==
    \/ SleepRateLimit
    \/ SleepBackoff

SpecBackoff == InitBackoff /\ [][NextBackoff]_vars

\* ---- collect_search_results called twice with the same arguments
\* ---- against the same mocked responses

\* the responses of the mock: a page with or without entries and with or
\* without a next link, or a timeout
MockOutcomes == {o \in FetchOutcomes : o.kind \in {"ok", "timeout"}}

\* the first call has returned; the second call starts, and the mock
\* starts again at its first response
Rerun ==
    /\ run = 1
    /\ wpc = "returned"
    /\ run' = 2
    /\ first_results' = [results |-> full_results, failed |-> failed_queries]
    /\ cursor' = 1
    /\ wpc' = "start"
    /\ qi' = 0
    /\ current_url' = None
    /\ page_count' = 0
    /\ query_results' = <<>>
    /\ full_results' = <<>>
    /\ failed_queries' = <<>>
    /\ attempt' = 0
    /\ success' = FALSE
    /\ log_url' = <<>>
    /\ last_tag' = "none"
    /\ fetches' = 0
    /\ transient_errs' = 0
    /\ unexpected_errs' = 0
    /\ slept' = 0
    /\ UNCHANGED <<proxy_configured, search_queries, max_pages, responses>>
    /\ UNCHANGED <<scraperVars, thread, retryVars, frameVars,
                   pipelineVars, storeVars>>

InitReplay ==
    /\ InitWalkerVars({TRUE}, {[i \in 1..n |-> i] : n \in 1..MaxQueries},
                      1..MaxPages)
    /\ responses \in [1..MaxResponses -> MockOutcomes]
    /\ cursor = 1
    /\ run = 1
    /\ first_results = <<>>
    /\ ScraperIdle
    /\ ThreadsIdle
    /\ RetryIdle
    /\ FrameIdle
    /\ PipelineIdle
    /\ StoreIdle

NextReplay ==
    \/ CheckConfig
    \/ NextQuery
    \/ WhileEnter
    \/ WhileExit
    \/ FetchMocked
    \/ AfterFor
    \/ Return
    \/ Rerun

SpecReplay == InitReplay /\ [][NextReplay]_vars

\* ---- lines 130-139 of collect_results.py: the organic entries of a
\* ---- parsed page become records

\* line 132
required_columns == <<"title", "description", "link", "rank">>

\* other keys an entry can have
OtherFields == {"display_link"}

Fields == {required_columns[k] : k \in DOMAIN required_columns} \cup OtherFields

\* the value of field f of the k-th entry
Value(k, f) == <<k, f>>

\* pandas fills NaN where an entry lacks a key other entries have; line 135
\* fills None where no entry has the key
NaN == "NaN"
Absent == {NaN, "None"}

\* the frame without the rows that lack a value
DataFrame_DropIncomplete(entries) ==
    LET rows == [k \in DOMAIN entries |->
                    [f \in entries[k] |-> Value(k, f)]]
    IN  SelectSeq(rows, LAMBDA r : DOMAIN r = Fields)

\* line 131: pd.DataFrame(parsed["organic"]): a row per entry, a column per
\* key that some entry has
DataFrame(entries) ==
    LET columns == UNION {entries[k] : k \in DOMAIN entries}
    IN  [k \in DOMAIN entries |->
            [f \in columns |-> IF f \in entries[k] THEN Value(k, f) ELSE NaN]]

\* lines 133-137: the missing required columns are added with None, and
\* the required columns are selected
RequiredColumns(df) ==
    [k \in DOMAIN df |->
        [f \in {required_columns[c] : c \in DOMAIN required_columns} |->
            IF f \in DOMAIN df[k] THEN df[k][f] ELSE "None"]]

\* lines 130-139: df, data, query_results.append(data)
BuildFrame ==
    /\ frame_pc = "parsed"
    /\ data' = RequiredColumns(DataFrame(organic))
    /\ frame_pc' = "appended"
    /\ UNCHANGED organic
    /\ UNCHANGED <<walkerVars, scraperVars, thread, retryVars, replayVars,
                   pipelineVars, storeVars>>

\* a page with at least one organic entry (line 127), each entry with any
\* of the fields
InitFrame ==
    /\ \E n \in 1..MaxEntries : organic \in [1..n -> SUBSET Fields]
    /\ data = <<>>
    /\ frame_pc = "parsed"
    /\ WalkerIdle
    /\ ScraperIdle
    /\ ThreadsIdle
    /\ RetryIdle
    /\ ReplayIdle
    /\ PipelineIdle
    /\ StoreIdle

NextFrame == BuildFrame

SpecFrame == InitFrame /\ [][NextFrame]_vars

\* ---- checkpointing.py and run_pipeline of main_cli.py, steps 1 to 3

\* the data a stage function returns in the r-th call of run_pipeline,
\* identified by the call that fetched it
DataOf(stage, r) == r

\* a run directory as CheckpointManager.__init__ makes it
NewDir == [metadata |-> {}, files |-> <<>>]

\* a manager that finds no checkpoint
has_checkpoint_Never(metadata, stage) == FALSE

\* CheckpointManager.has_checkpoint of a manager with self.metadata
has_checkpoint(metadata, stage) == stage \in metadata

\* CheckpointManager.load_checkpoint of a manager with self.metadata, on the
\* files of its directory: None if the stage is not in the metadata, the
\* file does not exist or reading it raises
load_checkpoint(metadata, files, stage) ==
    IF stage \notin metadata THEN None
    ELSE IF stage \notin DOMAIN files THEN None
    ELSE IF files[stage] = Unreadable THEN None
    ELSE files[stage]

\* CheckpointManager.save_checkpoint when nothing fails, on the directory
\* dir: the file, then self.metadata with the stage, written out whole
save_checkpoint(dir, metadata, stage, dat) ==
    [dir EXCEPT !.files = (stage :> dat) @@ @,
                !.metadata = metadata \cup {stage}]

\* find_latest_run: the last directory by name
find_latest_run == IF disk = <<>> THEN None ELSE Len(disk)

\* resume_from_checkpoint
resume_from_checkpoint ==
    IF find_latest_run = None THEN None
    ELSE IF disk[find_latest_run].metadata = {} THEN None
    ELSE find_latest_run

\* main_cli.py lines 157-174: the manager of the latest run on resume, a
\* new run directory with pipeline_info in its metadata otherwise
StartPipeline ==
    /\ ppc \in {"idle", "exit", "failed", "dedup"}
    /\ pipeline_run < MaxRuns
    /\ pipeline_run' = pipeline_run + 1
    /\ \E r, use_checkpoints \in BOOLEAN :
        /\ resume' = r
        /\ IF r
           THEN /\ checkpoint_manager' = resume_from_checkpoint
                /\ disk' = disk
           ELSE IF use_checkpoints
           THEN /\ checkpoint_manager' = Len(disk) + 1
                /\ disk' = Append(disk, [NewDir EXCEPT
                                            !.metadata = {"pipeline_info"}])
           ELSE /\ checkpoint_manager' = None
                /\ disk' = disk
        /\ held_at_start' = IF r /\ disk # <<>>
                            THEN disk[Len(disk)].metadata ELSE {}
    /\ reference_df' = None
    /\ results_df' = None
    /\ stage_calls' = {}
    /\ ppc' = "step1"
    /\ UNCHANGED <<walkerVars, scraperVars, thread, retryVars, replayVars,
                   frameVars, storeVars>>

\* a stage of run_pipeline: the data from the checkpoint if the manager
\* has one, else from the stage function, checkpointed if there is a
\* manager; next is the position after the stage
Stage(stage, func, next) ==
    IF /\ checkpoint_manager # None
       /\ has_checkpoint(disk[checkpoint_manager].metadata, stage)
    THEN LET loaded == load_checkpoint(disk[checkpoint_manager].metadata,
                                       disk[checkpoint_manager].files, stage)
         IN  /\ ppc' = IF loaded = None THEN "failed" ELSE next
             /\ UNCHANGED <<disk, stage_calls>>
             /\ IF stage = "reference_data"
                THEN reference_df' = loaded /\ UNCHANGED results_df
                ELSE results_df' = loaded /\ UNCHANGED reference_df
    ELSE /\ stage_calls' = stage_calls \cup {func}
         /\ \E returns \in {"data", "empty", "raises"} :
              LET dat == DataOf(stage, pipeline_run)
              IN  IF returns = "data"
                  THEN /\ ppc' = next
                       /\ IF stage = "reference_data"
                          THEN reference_df' = dat /\ UNCHANGED results_df
                          ELSE results_df' = dat /\ UNCHANGED reference_df
                       /\ IF checkpoint_manager # None
                          THEN \E saved \in BOOLEAN :
                                  disk' = IF saved
                                          THEN [disk EXCEPT ![checkpoint_manager] =
                                                 save_checkpoint(@, @.metadata,
                                                                 stage, dat)]
                                          ELSE disk
                          ELSE disk' = disk
                  ELSE /\ ppc' = IF returns = "empty" THEN "exit" ELSE "failed"
                       /\ UNCHANGED <<disk, reference_df, results_df>>

\* main_cli.py lines 186-202
Step1 ==
    /\ ppc = "step1"
    /\ Stage("reference_data", "grab_reference_data", "step2")
    /\ UNCHANGED <<pipeline_run, resume, checkpoint_manager, held_at_start>>
    /\ UNCHANGED <<walkerVars, scraperVars, thread, retryVars, replayVars,
                   frameVars, storeVars>>

\* main_cli.py lines 207-216: the queries are generated
Step2 ==
    /\ ppc = "step2"
    /\ \E raises \in BOOLEAN : ppc' = IF raises THEN "failed" ELSE "step3"
    /\ UNCHANGED <<disk, pipeline_run, resume, checkpoint_manager, held_at_start,
                   reference_df, results_df, stage_calls>>
    /\ UNCHANGED <<walkerVars, scraperVars, thread, retryVars, replayVars,
                   frameVars, storeVars>>

\* main_cli.py lines 221-235
Step3 ==
    /\ ppc = "step3"
    /\ Stage("serp_results", "collect_search_results", "dedup")
    /\ UNCHANGED <<pipeline_run, resume, checkpoint_manager, held_at_start>>
    /\ UNCHANGED <<walkerVars, scraperVars, thread, retryVars, replayVars,
                   frameVars, storeVars>>

InitPipeline ==
    /\ PipelineIdle
    /\ StoreIdle
    /\ WalkerIdle
    /\ ScraperIdle
    /\ ThreadsIdle
    /\ RetryIdle
    /\ ReplayIdle
    /\ FrameIdle

NextPipeline ==
    \/ StartPipeline
    \/ Step1
    \/ Step2
    \/ Step3

SpecPipeline == InitPipeline /\ [][NextPipeline]_vars

\* ---- the CheckpointManager objects of one run directory, disk[1]

\* the run directory has been made and not removed
DirExists == disk # <<>>

\* the checkpoint files of the run directory
Files == IF DirExists THEN disk[1].files ELSE <<>>

\* a manager that starts with empty metadata
load_metadata_Empty == {}

\* CheckpointManager._load_metadata: metadata.json of the run directory
load_metadata == IF DirExists THEN disk[1].metadata ELSE {}

\* CheckpointManager(run_id): the directory is made if missing, the
\* metadata is read
NewManager ==
    /\ Len(managers) < MaxManagers
    /\ disk' = IF DirExists THEN disk ELSE <<NewDir>>
    /\ managers' = Append(managers, load_metadata)
    /\ UNCHANGED <<last_save, last_load>>
    /\ UNCHANGED <<pipeline_run, ppc, resume, checkpoint_manager, held_at_start,
                   reference_df, results_df, stage_calls>>
    /\ UNCHANGED <<walkerVars, scraperVars, thread, retryVars, replayVars,
                   frameVars, cloudVars, trackerVars>>

\* save_checkpoint(stage, dat) of manager m.  outcome "ok": nothing raises.
\* "open_fails": the checkpoint file cannot be opened.  "write_fails": the
\* write of the checkpoint file raises part way.  "metadata_fails": the file
\* is written and self.metadata updated, _save_metadata cannot open
\* metadata.json.  Every exception is caught and printed.
Save(m, stage, dat, outcome) ==
    /\ outcome \in {"ok", "write_fails", "metadata_fails"} => DirExists
    /\ disk' =
         CASE outcome = "ok" ->
                <<save_checkpoint(disk[1], managers[m], stage, dat)>>
           [] outcome = "open_fails" -> disk
           [] outcome = "write_fails" ->
                [disk EXCEPT ![1].files = (stage :> Unreadable) @@ @]
           [] outcome = "metadata_fails" ->
                [disk EXCEPT ![1].files = (stage :> dat) @@ @]
    /\ managers' = IF outcome \in {"ok", "metadata_fails"}
                   THEN [managers EXCEPT ![m] = @ \cup {stage}]
                   ELSE managers
    /\ last_save' = [last_save EXCEPT ![stage] =
                       IF outcome = "ok"
                       THEN [data |-> dat, by |-> m,
                             n |-> IF @.n < 2 THEN @.n + 1 ELSE 2]
                       ELSE NoSave]
    /\ last_load' = NoLoad
    /\ UNCHANGED <<pipeline_run, ppc, resume, checkpoint_manager, held_at_start,
                   reference_df, results_df, stage_calls>>
    /\ UNCHANGED <<walkerVars, scraperVars, thread, retryVars, replayVars,
                   frameVars, cloudVars, trackerVars>>

\* a save that succeeds, by the manager of the running process (the one
\* made last)
SaveCheckpoint ==
    /\ managers # <<>>
    /\ \E stage \in CheckpointStages, dat \in 1..MaxData :
          Save(Len(managers), stage, dat, "ok")

\* a save that fails
FailedSave ==
    /\ managers # <<>>
    /\ \E stage \in CheckpointStages, dat \in 1..MaxData,
          outcome \in {"open_fails", "write_fails", "metadata_fails"} :
          Save(Len(managers), stage, dat, outcome)

\* load_checkpoint(stage) of any manager
LoadCheckpoint ==
    /\ \E m \in 1..Len(managers), stage \in CheckpointStages :
          last_load' = [manager |-> m, stage |-> stage,
                        value |-> load_checkpoint(managers[m], Files, stage)]
    /\ UNCHANGED <<managers, last_save>>
    /\ UNCHANGED pipelineVars
    /\ UNCHANGED <<walkerVars, scraperVars, thread, retryVars, replayVars,
                   frameVars, cloudVars, trackerVars>>

\* a checkpoint file is removed, or damaged, from outside
LoseFile ==
    /\ DirExists
    /\ \E stage \in DOMAIN Files, removed \in BOOLEAN :
          /\ disk' = [disk EXCEPT ![1].files =
                         IF removed
                         THEN [f \in DOMAIN @ \ {stage} |-> @[f]]
                         ELSE [@ EXCEPT ![stage] = Unreadable]]
          /\ last_save' = [last_save EXCEPT ![stage] = NoSave]
    /\ last_load' = NoLoad
    /\ UNCHANGED managers
    /\ UNCHANGED <<pipeline_run, ppc, resume, checkpoint_manager, held_at_start,
                   reference_df, results_df, stage_calls>>
    /\ UNCHANGED <<walkerVars, scraperVars, thread, retryVars, replayVars,
                   frameVars, cloudVars, trackerVars>>

\* CheckpointManager.clear_checkpoints: the directory is removed,
\* self.metadata is left as it is
ClearCheckpoints ==
    /\ managers # <<>>
    /\ DirExists
    /\ disk' = <<>>
    /\ last_save' = [stage \in CheckpointStages |-> NoSave]
    /\ last_load' = NoLoad
    /\ UNCHANGED managers
    /\ UNCHANGED <<pipeline_run, ppc, resume, checkpoint_manager, held_at_start,
                   reference_df, results_df, stage_calls>>
    /\ UNCHANGED <<walkerVars, scraperVars, thread, retryVars, replayVars,
                   frameVars, cloudVars, trackerVars>>

NextCheckpoint ==
    \/ NewManager
    \/ SaveCheckpoint
    \/ LoadCheckpoint

NextCheckpointFaults ==
    \/ NextCheckpoint
    \/ FailedSave
    \/ LoseFile
    \/ ClearCheckpoints

SpecCheckpoint == InitPipeline /\ [][NextCheckpoint]_vars

SpecCheckpointFaults == InitPipeline /\ [][NextCheckpointFaults]_vars

\* ---- press_release_collection and run_serp_collection of main.py, with
\* the collection_runs table of bigquery_storage.py

\* the newsroom_url column of the reference data, which may differ from
\* one invocation to the next
ReferenceData == {<<"a.example">>, <<"b.example">>,
                  <<"a.example", "b.example">>}

\* dates, as day numbers
Dates == 1..MaxDate

\* create_search_queries: one query per newsroom URL of the reference
\* data, in its order, with the date range in the text of the query
create_search_queries(newsroom_urls, start_date, end_date) ==
    [i \in DOMAIN newsroom_urls |-> <<newsroom_urls[i], start_date, end_date>>]

\* BigQueryStorage.get_executed_queries_for_date_range when the query does
\* not raise: the queries of the completed runs whose range overlaps
get_executed_queries_for_date_range(start_date, end_date) ==
    UNION {collection_runs[i].queries_executed :
             i \in {j \in DOMAIN collection_runs :
                      /\ collection_runs[j].status = "completed"
                      /\ collection_runs[j].start_date <= end_date
                      /\ collection_runs[j].end_date >= start_date}}

\* a filter that keeps every query
FilterQueries_KeepAll(all_queries, already_executed) == all_queries

\* [q for q in all_queries if q not in already_executed]
FilterQueries(all_queries, already_executed) ==
    SelectSeq(all_queries, LAMBDA q : q \notin already_executed)

Range(seq) == {seq[i] : i \in DOMAIN seq}

\* the row of the running invocation
ThisRun == Len(collection_runs)

\* main.py lines 262-296: validate_request and log_run_start
Invoke ==
    /\ cpc = "idle"
    /\ Len(collection_runs) < MaxInvocations
    /\ \E start_date \in Dates, end_date \in Dates, force_refresh \in BOOLEAN :
          /\ start_date <= end_date
          /\ params' = [start_date |-> start_date, end_date |-> end_date,
                        force_refresh |-> force_refresh]
          /\ collection_runs' = Append(collection_runs,
                 [start_date |-> start_date, end_date |-> end_date,
                  status |-> "started", queries_executed |-> {}])
    /\ cpc' = "serp"
    /\ effective_start_date' = 0
    /\ queries_to_execute' = <<>>
    /\ serp_stats' = <<>>
    /\ lookup_raised' = FALSE
    /\ serp_fetched' = {}
    /\ reported_failed' = {}
    /\ UNCHANGED <<walkerVars, scraperVars, thread, retryVars, replayVars,
                   frameVars, pipelineVars, checkpointVars, trackerVars>>

\* run_serp_collection lines 105-164: the effective date range, the
\* queries, the queries already executed taken out unless force_refresh;
\* with nothing left it returns with all_queries as the executed ones
Deduplicate ==
    /\ cpc = "serp"
    /\ \E backfill_urls \in BOOLEAN, raises \in BOOLEAN,
          newsroom_urls \in ReferenceData :
         LET effective == IF backfill_urls /\ ~params.force_refresh
                      THEN BACKFILL_START_DATE ELSE params.start_date
             all_queries == create_search_queries(newsroom_urls, effective,
                                                 params.end_date)
             already_executed ==
                 IF raises THEN {}
                 ELSE get_executed_queries_for_date_range(effective, params.end_date)
             todo == IF params.force_refresh THEN all_queries
                     ELSE FilterQueries(all_queries, already_executed)
         IN  /\ raises => ~params.force_refresh
             /\ effective_start_date' = effective
             /\ lookup_raised' = raises
             /\ queries_to_execute' = todo
             /\ IF todo = <<>>
                THEN /\ serp_stats' = <<Range(all_queries)>>
                     /\ cpc' = "ran"
                ELSE /\ serp_stats' = <<>>
                     /\ cpc' = "collect"
    /\ UNCHANGED <<collection_runs, params, serp_fetched, reported_failed>>
    /\ UNCHANGED <<walkerVars, scraperVars, thread, retryVars, replayVars,
                   frameVars, pipelineVars, checkpointVars, trackerVars>>

\* run_serp_collection lines 169-173: collect_search_results on the list.
\* It returns when every query had its first page accepted, some after a
\* round that reported the query in failed_queries; it raises when the
\* proxy is not configured; and it does not return while the first page of
\* a query is not accepted (the while loop of collect_results.py line 91).
CollectSerp ==
    /\ cpc = "collect"
    /\ \E result \in {"returns", "raises", "hangs"} :
         CASE result = "returns" ->
                /\ serp_fetched' = Range(queries_to_execute)
                /\ \E failed \in SUBSET Range(queries_to_execute) :
                      /\ Cardinality(failed) <= 1
                      /\ reported_failed' = failed
                /\ serp_stats' = <<Range(queries_to_execute)>>
                /\ cpc' = "ran"
           [] result = "raises" ->
                /\ cpc' = "raised"
                /\ UNCHANGED <<serp_fetched, reported_failed, serp_stats>>
           [] result = "hangs" ->
                /\ \E k \in DOMAIN queries_to_execute :
                      /\ serp_fetched' = {queries_to_execute[i] : i \in 1..k}
                      /\ reported_failed' = {queries_to_execute[k]}
                /\ cpc' = "hung"
                /\ UNCHANGED serp_stats
    /\ UNCHANGED <<collection_runs, params, effective_start_date,
                   queries_to_execute, lookup_raised>>
    /\ UNCHANGED <<walkerVars, scraperVars, thread, retryVars, replayVars,
                   frameVars, pipelineVars, checkpointVars, trackerVars>>

\* BigQueryStorage.log_run_completion on the row of the invocation
log_run_completion(queries_executed, error_message) ==
    [collection_runs EXCEPT ![ThisRun] =
        [@ EXCEPT !.status = IF error_message THEN "failed" ELSE "completed",
                  !.queries_executed = queries_executed]]

\* main.py lines 307-322 and 333-349: the scraping step, then the run is
\* logged as completed with stats['all_queries']; after an exception it is
\* logged as failed with what the stats hold
LogCompletion ==
    /\ cpc \in {"ran", "raised"}
    /\ \E scraping_raises \in BOOLEAN :
          /\ scraping_raises => cpc = "ran"
          /\ collection_runs' = log_run_completion(
                 IF cpc = "ran" /\ ~scraping_raises
                 THEN serp_stats[1] ELSE {},
                 cpc = "raised" \/ scraping_raises)
    /\ cpc' = "idle"
    /\ UNCHANGED <<params, effective_start_date, queries_to_execute, serp_stats,
                   lookup_raised, serp_fetched, reported_failed>>
    /\ UNCHANGED <<walkerVars, scraperVars, thread, retryVars, replayVars,
                   frameVars, pipelineVars, checkpointVars, trackerVars>>

\* the platform ends an invocation that does not return; its row stays
\* 'started'
EndRequest ==
    /\ cpc = "hung"
    /\ cpc' = "idle"
    /\ UNCHANGED <<collection_runs, params, effective_start_date,
                   queries_to_execute, serp_stats, lookup_raised, serp_fetched,
                   reported_failed>>
    /\ UNCHANGED <<walkerVars, scraperVars, thread, retryVars, replayVars,
                   frameVars, pipelineVars, checkpointVars, trackerVars>>

InitCloud ==
    /\ CloudIdle
    /\ CheckpointIdle
    /\ TrackerIdle
    /\ PipelineIdle
    /\ WalkerIdle
    /\ ScraperIdle
    /\ ThreadsIdle
    /\ RetryIdle
    /\ ReplayIdle
    /\ FrameIdle

NextCloud ==
    \/ Invoke
    \/ Deduplicate
    \/ CollectSerp
    \/ LogCompletion
    \/ EndRequest

SpecCloud == InitCloud /\ [][NextCloud]_vars

\* ---- run_pipeline of main_cli.py after step 3, with the URLTracker of
\* deduplication.py

\* the links the search results can hold
SerpLinks == {"a.example/1", "a.example/2", "b.example/1"}

\* URLTracker.filter_new_urls
filter_new_urls(processed, batch) == {url \in batch : url \notin processed}

\* URLTracker.mark_batch_as_processed
mark_batch_as_processed(batch) == processed_urls \cup batch

\* main_cli.py lines 236-246: the tracker is loaded from its file and the
\* search results lose the URLs it holds; with none left the run ends
DeduplicateSerp ==
    /\ tkpc = "idle"
    /\ \E serp \in SUBSET SerpLinks \ {{}} :
          /\ processed_urls' = tracking_file
          /\ links' = filter_new_urls(tracking_file, serp)
          /\ tkpc' = IF filter_new_urls(tracking_file, serp) = {}
                     THEN "idle" ELSE "scrape"
    /\ UNCHANGED <<tracking_file, scraped_ok, returncode>>
    /\ UNCHANGED <<walkerVars, scraperVars, thread, retryVars, replayVars,
                   frameVars, pipelineVars, checkpointVars, cloudVars>>

\* main_cli.py lines 264-270: the article scraper as a child process.  Each
\* URL is extracted or fails (scrape_single_article returns None); the
\* process ends with 0 whatever the failures, and with 1 only after an
\* exception that nothing catches.
RunScraper ==
    /\ tkpc = "scrape"
    /\ \E ok \in SUBSET links, crashed \in BOOLEAN :
          /\ scraped_ok' = scraped_ok \cup ok
          /\ returncode' = IF crashed THEN 1 ELSE 0
    /\ tkpc' = "mark"
    /\ UNCHANGED <<tracking_file, processed_urls, links>>
    /\ UNCHANGED <<walkerVars, scraperVars, thread, retryVars, replayVars,
                   frameVars, pipelineVars, checkpointVars, cloudVars>>

\* main_cli.py lines 272-278: after exit code 0 the links are marked and
\* the tracker is saved (an error of the save is printed only)
MarkProcessed ==
    /\ tkpc = "mark"
    /\ IF returncode # 0
       THEN UNCHANGED <<processed_urls, tracking_file>>
       ELSE /\ processed_urls' = mark_batch_as_processed(links)
            /\ \E saved \in BOOLEAN :
                  tracking_file' = IF saved THEN processed_urls'
                                   ELSE tracking_file
    /\ tkpc' = "idle"
    /\ UNCHANGED <<links, scraped_ok, returncode>>
    /\ UNCHANGED <<walkerVars, scraperVars, thread, retryVars, replayVars,
                   frameVars, pipelineVars, checkpointVars, cloudVars>>

InitTracker == InitCloud

NextTracker ==
    \/ DeduplicateSerp
    \/ RunScraper
    \/ MarkProcessed

SpecTracker == InitTracker /\ [][NextTracker]_vars

\* the scraper as the child process of run_article_scraping
SpecScraperTimeout == InitScraper /\ [][NextScraperTimeout]_vars

\* ------------------------------------------------------------- properties

\* the rows of the failure log that name URL u
FailureRows(u) ==
    {k \in DOMAIN metrics.failed_urls : metrics.failed_urls[k].url = u}

\* C1: every task of scrape_single_article ends in exactly one of two ways:
\* it returns an article of its URL after one record_success call and no
\* record_failure call, or it returns None after one record_failure call
\* and no record_success call; the failure log holds one row per failed
\* task of a URL.
C1_ExactlyOneOutcome ==
    /\ \A i \in Tasks :
        /\ calls[i].success + calls[i].failure <= 1
        /\ task[i].pc = "done" =>
            \/ /\ task[i].result.ok
               /\ task[i].result.url = urls[i]
               /\ calls[i] = [success |-> 1, failure |-> 0]
            \/ /\ ~task[i].result.ok
               /\ calls[i] = [success |-> 0, failure |-> 1]
    /\ \A u \in UrlIds :
        Cardinality(FailureRows(u))
            = Cardinality({i \in Tasks : urls[i] = u /\ calls[i].failure = 1})

\* two tasks are over, one with an article and one with None
C1_Witness ==
    \E i, j \in Tasks :
        /\ task[i].pc = "done" /\ task[i].result.ok
        /\ task[j].pc = "done" /\ ~task[j].result.ok

\* C2: once scrape_articles_concurrent has collected every task, the
\* metrics and the report read from them have successful + failed = total,
\* and total is the number of URLs of the run.
C2_CountsAddUp ==
    spc \in {"save_error_log", "returned"} =>
        /\ metrics.total = Len(urls)
        /\ metrics.successful + metrics.failed = metrics.total
        /\ report.total = Len(urls)
        /\ report.successful + report.failed = report.total

\* a run of two URLs is over with one success and one failure
C2_Witness ==
    /\ spc = "returned"
    /\ report = [total |-> 2, successful |-> 1, failed |-> 1]

\* C3: a strategy is called for a URL only while no result is accepted for
\* it and the call before it, if any, failed, and it is the next one of
\* the order newspaper3k, trafilatura, readability, goose3.
C3_FallbackOrder ==
    [][\A i \in Tasks :
          invoked'[i] # invoked[i] =>
              /\ ~task[i].result.ok
              /\ last_outcome[i] # "content"
              /\ Len(invoked[i]) < Len(Scrapers)
              /\ invoked'[i] = Append(invoked[i], Scrapers[Len(invoked[i]) + 1])]_vars

\* a URL whose first two strategies failed and whose third was accepted
C3_Witness ==
    \E i \in Tasks :
        /\ task[i].pc = "done"
        /\ invoked[i] = <<"newspaper3k", "trafilatura", "readability">>
        /\ task[i].result.ok
        /\ task[i].result.scraper_used = "readability"

\* C4: no page URL of a query is fetched more than SERP_RETRY_ATTEMPTS
\* times.
C4_AtMostBudgetFetches == fetches <= SERP_RETRY_ATTEMPTS

\* C5: after a page without organic entries the walker fetches nothing
\* more for that query.
C5_EmptyPageEndsPagination ==
    ~(/\ wpc = "attempt"
      /\ last_tag = "empty"
      /\ log_url # <<>>
      /\ log_url[1] = qi)

\* C6: a query is never added to failed_queries after a page without
\* organic entries.
C6_EmptyPageNotFailure ==
    [][failed_queries' # failed_queries => last_tag # "empty"]_vars

\* C7: with the proxy configured, collect_search_results returns in the end.
C7_RunCompletes == proxy_configured => <>(wpc = "returned")

\* C8: a page that answered with a 4xx status other than 429 is not
\* retried by the retry loop.
C8_ClientErrorNotRetried ==
    ~(wpc = "attempt" /\ attempt > 0 /\ last_tag = "http4xx")

\* C9: while the fetches of a page have all met timeouts or connection
\* errors and are fewer than SERP_RETRY_ATTEMPTS, the retry loop is about
\* to fetch the same URL again; when the fetch after k < SERP_RETRY_ATTEMPTS
\* such errors succeeds, the page is accepted in that pass of the loop, as
\* fetch k + 1 of the URL, and the walker moves to another URL.
C9_TransientRetried ==
    /\ (fetches >= 1 /\ fetches < SERP_RETRY_ATTEMPTS /\ transient_errs = fetches) =>
        /\ wpc = "attempt"
        /\ attempt = fetches
        /\ log_url = <<qi, current_url>>
        /\ ~success
    /\ (/\ wpc = "after_for"
        /\ last_tag = "ok"
        /\ fetches <= SERP_RETRY_ATTEMPTS
        /\ transient_errs = fetches - 1) =>
        /\ success
        /\ attempt = fetches - 1
        /\ page_count = Len(query_results)
        /\ query_results[Len(query_results)]
               = PageFrame(search_queries[qi], log_url[2])
        /\ current_url # log_url[2]

\* the first page was accepted by its third fetch, after two transient
\* errors, and the walker is about to fetch the second page
C9_Witness ==
    /\ wpc = "attempt"
    /\ log_url = <<1, 1>>
    /\ last_tag = "ok"
    /\ fetches = 3
    /\ transient_errs = 2
    /\ current_url = 2
    /\ page_count = 1

\* how often x occurs in seq
Occurrences(seq, x) == Cardinality({k \in DOMAIN seq : seq[k] = x})

\* C10: a strategy whose last call met a timeout or a connection error is
\* given up (the chain is past it) only after at least RETRY_ATTEMPTS calls
\* of it for that URL.
C10_StrategyRetries ==
    \A i \in Tasks :
        LET n == Len(invoked[i])
        IN  (/\ n > 0
             /\ last_outcome[i] \in {"timeout", "connection_error"}
             /\ (task[i].pc # "chain" \/ Scrapers[task[i].idx] # invoked[i][n])) =>
                Occurrences(invoked[i], invoked[i][n]) >= RETRY_ATTEMPTS

\* C11: at no time are more than max_workers scrape_single_article tasks in
\* flight, however many URLs were submitted.
C11_WorkerCap == Cardinality(InFlight) <= max_workers

\* every worker is busy and a submitted URL waits for one
C11_Witness ==
    /\ Len(urls) > max_workers
    /\ Cardinality(InFlight) = max_workers
    /\ \E i \in Tasks : task[i].pc = "queued"

\* the last strategy called for task i
LastInvoked(i) == invoked[i][Len(invoked[i])]

\* C12: scrape_single_article returns None and records one failure of
\* category "All Scrapers Failed" exactly when all four strategies failed
\* for the URL, and then no content record of that task is emitted.
C12_FailureIffAllFailed ==
    /\ \A i \in Tasks :
        LET allFailed == strategy_failures[i] = Len(Scrapers)
        IN  /\ (task[i].pc = "record_failure" \/ calls[i].failure = 1) => allFailed
            /\ allFailed => /\ task[i].pc \in {"record_failure", "done"}
                            /\ task[i].result = NoResult
                            /\ calls[i].success = 0
            /\ task[i].pc = "done" =>
                  ((~task[i].result.ok /\ calls[i].failure = 1) <=> allFailed)
    /\ \A k \in DOMAIN metrics.failed_urls :
          metrics.failed_urls[k].error_type = "All Scrapers Failed"
    /\ Len(articles) = Cardinality({i \in collected : task[i].result.ok})
    /\ \A k \in DOMAIN articles :
          /\ articles[k].ok
          /\ \E i \in collected : /\ task[i].result = articles[k]
                                  /\ strategy_failures[i] < Len(Scrapers)

\* one task failed in all four strategies and returned None, another
\* returned a record, and both results were collected
C12_Witness ==
    /\ \E i \in collected : /\ strategy_failures[i] = Len(Scrapers)
                            /\ calls[i].failure = 1
    /\ \E i \in collected : task[i].result.ok
    /\ Len(articles) = 1

\* C13: a strategy's result is accepted only if its text is non-empty and
\* text.strip() has at least MIN_TEXT_LEN characters; a shorter text makes
\* the strategy fail and the chain advance, so every record returned has a
\* body at or above the threshold.
C13_QualityGate ==
    /\ \A i \in Tasks :
        /\ task[i].result.ok => /\ task[i].result.text_len >= MIN_TEXT_LEN
                                /\ last_outcome[i] = "content"
        /\ last_outcome[i] = "short" =>
              /\ ~task[i].result.ok
              /\ strategy_failures[i] = Len(invoked[i])
              /\ task[i].pc = "chain" => task[i].idx = Len(invoked[i]) + 1
              /\ task[i].pc # "chain" => Len(invoked[i]) = Len(Scrapers)
    /\ \A k \in DOMAIN articles : articles[k].text_len >= MIN_TEXT_LEN

\* the first strategy of a task extracted a text below the threshold and the
\* chain is at the second one, while a record of exactly the threshold
\* length has been returned for another task
C13_Witness ==
    /\ \E i \in Tasks : /\ last_outcome[i] = "short"
                        /\ task[i].pc = "chain"
                        /\ task[i].idx = 2
    /\ \E k \in DOMAIN articles : articles[k].text_len = MIN_TEXT_LEN

\* C14: the scraper_used tag of a returned record, and the per-strategy
\* counter record_success incremented for it, name the strategy whose result
\* was accepted for that URL.
C14_TagNamesAcceptingStrategy ==
    /\ \A i \in Tasks :
          task[i].result.ok => /\ invoked[i] # <<>>
                               /\ task[i].result.scraper_used = LastInvoked(i)
                               /\ strategy_failures[i] = Len(invoked[i]) - 1
    /\ \A n \in DOMAIN metrics.scraper_counts :
          metrics.scraper_counts[n]
            = Cardinality({i \in Tasks : /\ calls[i].success = 1
                                         /\ task[i].result.ok
                                         /\ LastInvoked(i) = n})

\* a record accepted from the second strategy, after the first one failed,
\* has been counted
C14_Witness ==
    \E i \in Tasks : /\ task[i].pc = "done"
                     /\ task[i].result.ok
                     /\ invoked[i] = <<"newspaper3k", "trafilatura">>
                     /\ metrics.scraper_counts["trafilatura"] = 1
                     /\ metrics.scraper_counts["newspaper3k"] = 0

\* what a failure inside a strategy looks like in the history
StrategyErrors == {"timeout", "connection_error", "parse_error"}

\* C15: a failure of any kind inside a strategy never leaves that strategy
\* nor scrape_single_article: the strategy counts as failed and the next one
\* in the chain is tried.
C15_FailuresContained ==
    /\ \A i \in Tasks :
        /\ task[i].result.exc = ""
        /\ task[i].last_error = DefaultError
        /\ last_outcome[i] \in StrategyErrors =>
              /\ ~task[i].result.ok
              /\ strategy_failures[i] = Len(invoked[i])
              /\ task[i].pc = "chain" => task[i].idx = Len(invoked[i]) + 1
              /\ task[i].pc # "chain" => /\ Len(invoked[i]) = Len(Scrapers)
                                         /\ task[i].pc \in {"record_failure", "done"}
    /\ \A k \in DOMAIN metrics.failed_urls :
          metrics.failed_urls[k].error_message = DefaultError

\* the first strategy of one task met a parse error and the chain is at the
\* second, and another task went through all four strategies, the last of
\* them timing out, and returned None
C15_Witness ==
    /\ \E i \in Tasks : /\ last_outcome[i] = "parse_error"
                        /\ task[i].pc = "chain"
                        /\ task[i].idx = 2
    /\ \E i \in Tasks : /\ last_outcome[i] = "timeout"
                        /\ invoked[i] = Scrapers
                        /\ task[i].pc = "done"
                        /\ calls[i].failure = 1

\* C16: for every query page_count never exceeds max_pages, no more than
\* max_pages pages are accepted, and no fetch is issued once page_count has
\* reached max_pages.
C16_PageCap ==
    /\ page_count <= max_pages
    /\ Cardinality({query_results[k].page : k \in DOMAIN query_results})
          <= max_pages
    /\ wpc = "attempt" => page_count < max_pages

\* the cap ended the pagination of a query whose last page had a next link
C16_Witness ==
    /\ wpc = "for_query"
    /\ max_pages = MaxPages
    /\ page_count = max_pages
    /\ Len(query_results) = max_pages
    /\ current_url # None

\* the content records of the run for URL u
RecordsOf(u) == {k \in DOMAIN output_articles_deduped :
                    output_articles_deduped[k].url = u}

\* C17: the result set of a run holds at most one content record per URL,
\* also when the URLs submitted hold the same URL more than once: it is the
\* first record scraped for the URL.
C17_OneRecordPerUrl ==
    spc = "joined" =>
        \A u \in UrlIds :
            /\ Cardinality(RecordsOf(u)) <= 1
            /\ (\E k \in DOMAIN articles : articles[k].url = u) =>
                  \E j \in RecordsOf(u) :
                      output_articles_deduped[j]
                        = Matching(articles, u)[1]
            /\ \A k, j \in DOMAIN joined :
                  (joined[k].url = u /\ joined[j].url = u) =>
                      joined[k].article = joined[j].article

\* the same URL was submitted twice and scraped twice with different
\* strategies, and the result set holds one record for it
C17_Witness ==
    /\ spc = "joined"
    /\ urls = <<"a", "a">>
    /\ Len(articles) = 2
    /\ articles[1] # articles[2]
    /\ Len(output_articles_deduped) = 1

\* C18: the final result set is in the input order of the URLs, whatever
\* the order in which the tasks completed.
C18_InputOrder ==
    spc = "joined" =>
        /\ Len(joined) = Len(urls)
        /\ \A k \in DOMAIN joined :
              /\ joined[k].url = urls[k]
              /\ joined[k].article.ok => joined[k].article.url = urls[k]
              /\ joined[k].article.ok <=>
                    \E j \in DOMAIN articles : articles[j].url = urls[k]

\* the task of the second URL was collected before that of the first, and
\* the rows of the result are in input order, each with its record
C18_Witness ==
    /\ spc = "joined"
    /\ urls = <<"a", "b">>
    /\ Len(articles) = 2
    /\ articles[1].url = "b"
    /\ articles[2].url = "a"
    /\ joined[1].article = articles[2]
    /\ joined[2].article = articles[1]

\* C19: when the whole-run timeout expires while tasks are outstanding, the
\* outstanding tasks are aborted and what was accumulated is flushed: the
\* report, the result set and, if a failure was counted, the failure log
\* are produced.
C19_TimeoutFlushes ==
    spc = "killed" =>
        /\ \A i \in Tasks : task[i].pc \in {"done", "killed"}
        /\ report = generate_report(metrics)
        /\ metrics.failed > 0 => error_log = save_error_log(metrics)
        /\ articles # <<>> => joined = merge(urls, drop_duplicates(articles))

\* the threads whose call of the given kind has returned
Returned(kind) ==
    {t \in Threads : thread[t].kind = kind /\ thread[t].pc = "returned"}

\* C20: every update of the metrics is made while holding the one lock, so
\* no update is lost under any interleaving: after n record_success and m
\* record_failure calls, successful = n and failed = m.
C20_NoLostUpdate ==
    /\ \A t \in Threads : thread[t].pc \in {"read", "write"} => lock = t
    /\ metrics.successful = Cardinality(Returned("success"))
    /\ metrics.failed = Cardinality(Returned("failure"))
    /\ Len(metrics.processing_times) = metrics.successful
    /\ Len(metrics.failed_urls) = metrics.failed
    /\ metrics.scraper_counts[Scrapers[1]] = metrics.successful
    /\ metrics.error_counts["All Scrapers Failed"] = metrics.failed

\* two record_success calls and one record_failure call have returned
C20_Witness ==
    /\ Cardinality(Returned("success")) = 2
    /\ Cardinality(Returned("failure")) = 1
    /\ metrics.successful = 2
    /\ metrics.failed = 1

\* what the reading method of thread t returns for the object m
ReadResult(t, m) ==
    IF thread[t].kind = "generate_report" THEN generate_report(m)
    ELSE get_progress_stats(m)

\* C21: generate_report and get_progress_stats change no metrics state and
\* may run while other calls are still completing: what they return are the
\* counts of one single state, the one in which they took the lock.
C21_ReportIsSnapshot ==
    /\ [](\A t \in Threads :
            thread[t].kind \in Readers =>
                /\ thread[t].pc \in {"read_successful", "read_rest"} =>
                      (lock = t /\ metrics = thread[t].seen)
                /\ thread[t].pc = "returned" =>
                      thread[t].read = ReadResult(t, thread[t].seen))
    /\ [][\A t \in Threads :
            (thread[t].kind \in Readers /\ thread'[t] # thread[t]) =>
                metrics' = metrics]_vars

\* generate_report has returned the counts of a started object with no
\* failure while a record_failure call was still in progress, and that call
\* has since returned
C21_Witness ==
    \E t, w \in Threads :
        /\ thread[t].kind = "generate_report"
        /\ thread[t].pc = "returned"
        /\ thread[t].read = [total |-> 1, successful |-> 0, failed |-> 0]
        /\ thread[w].kind = "failure"
        /\ thread[w].pc = "returned"
        /\ metrics.failed = 1

\* C22: save_error_log writes one row per recorded failure when a failure
\* was recorded, and with no failure recorded it writes nothing and returns
\* False.
C22_ErrorLogOnlyWithFailures ==
    \A t \in Threads :
        (thread[t].kind = "save_error_log" /\ thread[t].pc = "returned") =>
            LET m == thread[t].seen
            IN  /\ m.failed > 0 => /\ thread[t].read = m.failed_urls
                                   /\ Len(thread[t].read) = m.failed
                /\ m.failed = 0 => thread[t].read = NoFile

\* one call of save_error_log found no failure and wrote nothing, a later
\* one wrote the row of the failure recorded in between
C22_Witness ==
    \E t, u \in Threads :
        /\ thread[t].kind = "save_error_log"
        /\ thread[t].pc = "returned"
        /\ thread[t].seen.failed = 0
        /\ thread[t].read = NoFile
        /\ thread[u].kind = "save_error_log"
        /\ thread[u].pc = "returned"
        /\ thread[u].seen.failed = 1
        /\ Len(thread[u].read) = 1

\* the steps task i has at most before it is done
TaskRank(i) ==
    CASE task[i].pc = "unsubmitted" -> Len(Scrapers) + 4
      [] task[i].pc = "queued" -> Len(Scrapers) + 3
      [] task[i].pc = "chain" -> Len(Scrapers) - task[i].idx + 3
      [] task[i].pc \in {"record_success", "record_failure"} ->
            IF lock = i THEN 1 ELSE 2
      [] task[i].pc = "done" -> 0

RECURSIVE SumTaskRank(_)
SumTaskRank(n) == IF n = 0 THEN 0 ELSE TaskRank(n) + SumTaskRank(n - 1)

\* the steps the run has at most before __main__ holds joined
Rank ==
    SumTaskRank(Len(urls))
    + Cardinality(Tasks \ collected)
    + (CASE spc = "start" -> 6
         [] spc = "submit" -> 5
         [] spc = "as_completed" -> 4
         [] spc = "save_error_log" -> 3
         [] spc = "returned" -> 2
         [] spc = "joined" -> 1)

\* C23: a failure or timeout in the task of one URL neither cancels nor
\* blocks the other tasks nor crashes the run: every submitted URL reaches
\* its own terminal outcome, and the coordinator has collected every task
\* when it produces the report. Until the run has ended some thread can
\* take a step, and every step brings the run nearer to its end.
C23_FailuresAreLocal ==
    /\ [](report # NoReport =>
            /\ collected = Tasks
            /\ \A i \in Tasks : /\ task[i].pc = "done"
                                /\ calls[i].success + calls[i].failure = 1)
    /\ [](spc # "joined" => ENABLED NextScraper)
    /\ [][Rank' < Rank]_vars

\* the task of the first URL failed in all four strategies, the last of
\* them timing out, the task of the second URL returned a record, and the
\* report counts both
C23_Witness ==
    /\ Len(urls) = 2
    /\ last_outcome[1] = "timeout"
    /\ calls[1].failure = 1
    /\ task[2].result.ok
    /\ collected = Tasks
    /\ report = [total |-> 2, successful |-> 1, failed |-> 1]

\* C24: without the proxy credentials collect_search_results fails with the
\* configuration error before any page fetch is issued for any query.
C24_ConfigErrorBeforeFetch ==
    ~proxy_configured =>
        /\ wpc \in {"start", "raised"}
        /\ fetches = 0
        /\ last_tag = "none"
        /\ log_url = <<>>
        /\ full_results = <<>>

\* the ValueError was raised for a run over two queries with a page cap of
\* two
C24_Witness ==
    /\ ~proxy_configured
    /\ wpc = "raised"
    /\ Len(search_queries) = MaxQueries
    /\ max_pages = MaxPages

\* C25: at every attempt index a at which a retry is made, under any
\* configured budget, the delay before the retry after an HTTP 429,
\* 10 * (a + 1) s, is strictly longer than the delay after a generic
\* transient error, 2^a s.
C25_RateLimitWaitsLonger ==
    /\ retry_error = "http429" => retry_delay > BackoffMs(retry_attempt - 1)
    /\ retry_error = "timeout" => retry_delay < RateLimitBackoffMs(retry_attempt - 1)

\* C26: an unclassified exception during a page fetch is retried exactly
\* once and is terminal for the page if the retry fails too: a page whose
\* fetches all raised one is fetched at most twice.
C26_UnclassifiedRetriedOnce ==
    (unexpected_errs >= 1 /\ unexpected_errs = fetches) => fetches <= 2

\* frames in the order of the queries and, within a query, of the pages
InFetchOrder(frames) ==
    \A k, j \in DOMAIN frames :
        k < j => \/ frames[k].query < frames[j].query
                 \/ /\ frames[k].query = frames[j].query
                    /\ frames[k].page < frames[j].page

C28_OneRecordPerEntry ==
    frame_pc = "appended" =>
        /\ Len(data) = Len(organic)
        /\ \A k \in DOMAIN organic :
              \A c \in DOMAIN required_columns :
                  LET f == required_columns[c]
                  IN  /\ f \in organic[k] => data[k][f] = Value(k, f)
                      /\ f \notin organic[k] => data[k][f] \in Absent

\* of two entries the first has only a link and the second a link and a
\* title: the first record holds NaN for the title and None for the rank
C28_Witness ==
    /\ frame_pc = "appended"
    /\ organic = <<{"link"}, {"link", "title"}>>
    /\ Len(data) = 2
    /\ data[1]["title"] = NaN
    /\ data[1]["rank"] = "None"
    /\ data[2]["title"] = Value(2, "title")

C30_ResumeSkipsCheckpointed ==
    resume =>
        /\ "reference_data" \in held_at_start =>
              /\ "grab_reference_data" \notin stage_calls
              /\ ppc \in {"step2", "step3", "dedup"} =>
                    /\ reference_df
                         = disk[checkpoint_manager].files["reference_data"]
                    /\ reference_df < pipeline_run
        /\ "serp_results" \in held_at_start =>
              /\ "collect_search_results" \notin stage_calls
              /\ ppc = "dedup" =>
                    /\ results_df = disk[checkpoint_manager].files["serp_results"]
                    /\ results_df < pipeline_run

\* the second call resumed the first, which had checkpointed both stages,
\* and is past step 3 with the search results of the first call and no
\* stage function invoked
C30_Witness ==
    /\ resume
    /\ pipeline_run = 2
    /\ held_at_start = {"pipeline_info", "reference_data", "serp_results"}
    /\ ppc = "dedup"
    /\ stage_calls = {}
    /\ results_df = DataOf("serp_results", 1)
    /\ reference_df = DataOf("reference_data", 1)

C38_CheckpointHasData ==
    \A m \in 1..Len(managers), stage \in CheckpointStages :
        has_checkpoint(managers[m], stage) =>
            load_checkpoint(managers[m], Files, stage) # None

\* the completed runs before the running invocation whose date range
\* overlaps the effective range of the invocation
OverlappingCompleted ==
    {i \in 1..(ThisRun - 1) :
        /\ collection_runs[i].status = "completed"
        /\ collection_runs[i].start_date <= params.end_date
        /\ collection_runs[i].end_date >= effective_start_date}

\* the walker is passed, and fetches, only queries that no overlapping
\* completed run has executed, and makes no fetch when no query remains
OnlyNewQueries ==
    /\ \A i \in OverlappingCompleted :
          collection_runs[i].queries_executed
              \cap (Range(queries_to_execute) \cup serp_fetched) = {}
    /\ serp_fetched \subseteq Range(queries_to_execute)

C33_OnlyScrapedMarked ==
    /\ processed_urls \subseteq scraped_ok
    /\ tracking_file \subseteq scraped_ok

RECURSIVE SumCounts(_, _)
\* sum(counter.values()) over the keys S of a Counter
SumCounts(counter, S) ==
    IF S = {} THEN 0
    ELSE LET k == CHOOSE k \in S : TRUE
         IN  counter[k] + SumCounts(counter, S \ {k})

\* C34: observed outside the critical sections of the lock, the parts of the
\* metrics agree: failed is the number of rows of failed_urls and the sum
\* of error_counts, successful is the sum of scraper_counts and the number
\* of timing samples, and successful + failed <= total once the run has
\* started.
C34_MetricsPartsAgree ==
    lock = Free =>
        /\ metrics.failed = Len(metrics.failed_urls)
        /\ metrics.failed
             = SumCounts(metrics.error_counts, DOMAIN metrics.error_counts)
        /\ metrics.successful
             = SumCounts(metrics.scraper_counts, DOMAIN metrics.scraper_counts)
        /\ metrics.successful = Len(metrics.processing_times)
        /\ metrics.started =>
              metrics.successful + metrics.failed <= metrics.total

\* a started run of two URLs with one success by trafilatura and one
\* failure recorded, and no thread in a critical section
C34_Witness ==
    /\ lock = Free
    /\ metrics.started
    /\ metrics.total = 2
    /\ metrics.successful = 1
    /\ metrics.scraper_counts["trafilatura"] = 1
    /\ metrics.failed = 1
    /\ metrics.error_counts["All Scrapers Failed"] = 1
    /\ Len(metrics.failed_urls) = 1

\* C39: generate_report never fails in any reachable state of the metrics:
\* it returns a report also on an object on which start() has not been
\* called yet, and when total is 0.
C39_ReportNeverFails ==
    \A t \in Threads :
        (thread[t].kind = "generate_report" /\ thread[t].pc = "returned")
            => thread[t].read # ReportRaises

\* C35: a failed attempt at a page (timeout, HTTP error, connection error,
\* parse failure or unexpected exception) leaves the records accumulated for
\* the query, its page_count and its current page URL unchanged; only a
\* fully successful page appends records (one frame), increments page_count
\* and advances the URL.
C35_FailedAttemptChangesNothing ==
    [][/\ (wpc = "attempt" /\ last_tag' \notin {"ok", "empty"}) =>
             UNCHANGED <<query_results, page_count, current_url>>
       /\ (\/ Len(query_results') > Len(query_results)
           \/ page_count' > page_count
           \/ (wpc # "for_query" /\ current_url' # current_url)) =>
             /\ wpc = "attempt"
             /\ last_tag' = "ok"
             /\ query_results' = Append(query_results,
                                        PageFrame(search_queries[qi], current_url))
             /\ page_count' = page_count + 1
             /\ current_url' \in {current_url + 1, None}]_vars

\* C36: when collect_search_results has returned, every query in
\* failed_queries has no frame in the final result and is in failed_queries
\* once.
C36_FailedQueriesContributeNothing ==
    wpc = "returned" =>
        \A i \in DOMAIN failed_queries :
            /\ \A k \in DOMAIN full_results :
                   full_results[k].query # failed_queries[i]
            /\ Occurrences(failed_queries, failed_queries[i]) = 1

====
